---- MODULE Spec2Model ----
(***************************************************************************)
(* Model of the csv_tool storage and indexing engine:                      *)
(*   src/src/csv/index.rs   RowIndex (sparse row index, builders, seek)    *)
(*   src/src/csv/reader.rs  CsvReader, CsvRecord, IndexBuildHandle         *)
(*   src/src/csv/cache.rs   PageCache                                      *)
(*                                                                         *)
(* A source file is a sequence of bytes; the byte at file offset o is      *)
(* f[o+1].  All offsets in the model are the 0-based file offsets of the   *)
(* code.  Byte-size thresholds of the code (100 MiB, 1 MiB, 1 KiB, ...)    *)
(* are scaled down to a few bytes so that bounded files fall on both sides *)
(* of each of them; the comparisons made with them are the code's.         *)
(***************************************************************************)
EXTENDS Integers, Sequences, FiniteSets, TLC

(* ------------------------------ bounds --------------------------------- *)
\* longest file body (the bytes after the optional BOM)
MaxBody == 4
\* largest index granularity tried
MaxGranularity == 3
\* largest row limit handed to build_partial
MaxPartialRows == 3
\* cancelled continue_build calls made on one index
MaxInterrupts == 2
\* largest rayon thread count tried
MaxThreads == 3

(* ------------------------------- bytes --------------------------------- *)
NL == 10
CR == 13
QUOTE == 34
COMMA == 44
BOM == <<239, 187, 191>>

\* the bytes files are made of: the newline and an ordinary byte ('x')
Alphabet == {NL, 120}

Bodies == UNION {[1..n -> Alphabet] : n \in 0..MaxBody}
Files == {pre \o b : pre \in {<<>>, BOM}, b \in Bodies}

Min(S) == CHOOSE x \in S : \A y \in S : x <= y
Max(S) == CHOOSE x \in S : \A y \in S : x >= y

\* memchr(b'\n', &f[from..to]) as an absolute offset, -1 for None
memchr(f, from, to) ==
    LET S == {o \in from..(to - 1) : f[o + 1] = NL}
    IN IF S = {} THEN -1 ELSE Min(S)

\* memchr_iter(b'\n', &f[from..to]): the absolute offsets, in increasing order
RECURSIVE memchr_iter(_, _, _)
memchr_iter(f, from, to) ==
    LET p == memchr(f, from, to)
    IN IF p < 0 THEN <<>> ELSE <<p>> \o memchr_iter(f, p + 1, to)

\* start_offset: 3 when the file starts with the UTF-8 BOM, else 0
start_offset(f) ==
    IF Len(f) >= 3 /\ SubSeq(f, 1, 3) = BOM THEN 3 ELSE 0

\* data_start: past the BOM and, with headers, past the first newline
data_start(f, has_headers) ==
    IF has_headers
    THEN LET pos == memchr(f, start_offset(f), Len(f))
         IN IF pos >= 0 THEN pos + 1 ELSE start_offset(f)
    ELSE start_offset(f)

(* ----------------------------- RowIndex -------------------------------- *)
RowIndex_new(granularity) ==
    [offsets |-> <<>>, row_numbers |-> <<>>, granularity |-> granularity,
     total_rows |-> 0, is_complete |-> FALSE, indexed_bytes |-> 0]

\* loop state of the newline loops: the anchors, current_row and line_start
ScanState(offsets, row_numbers, current_row, line_start) ==
    [offsets |-> offsets, row_numbers |-> row_numbers,
     current_row |-> current_row, line_start |-> line_start]

\* body of the newline loop: count the row, record an anchor every
\* granularity rows at the start of the row just ended, move line_start
ScanStep(st, nl_pos, granularity) ==
    LET row == st.current_row + 1
        hit == (row % granularity) = 0
    IN ScanState(IF hit THEN Append(st.offsets, st.line_start) ELSE st.offsets,
                 IF hit THEN Append(st.row_numbers, row) ELSE st.row_numbers,
                 row, nl_pos + 1)

RECURSIVE ScanAll(_, _, _)
ScanAll(st, nls, granularity) ==
    IF nls = <<>> THEN st
    ELSE ScanAll(ScanStep(st, Head(nls), granularity), Tail(nls), granularity)

\* the final-row rule of build_partial / build_with_progress
FinalRows(f, ds, nls, current_row) ==
    IF nls /= <<>>
    THEN IF nls[Len(nls)] + 1 < Len(f) THEN current_row + 1 ELSE current_row
    ELSE IF ds < Len(f) THEN 1 ELSE current_row

build_with_progress(f, has_headers, granularity) ==
    LET ds  == data_start(f, has_headers)
        nls == memchr_iter(f, ds, Len(f))
        st  == ScanAll(ScanState(<<>>, <<>>, 0, ds), nls, granularity)
    IN [offsets |-> st.offsets, row_numbers |-> st.row_numbers,
        granularity |-> granularity,
        total_rows |-> FinalRows(f, ds, nls, st.current_row),
        is_complete |-> TRUE, indexed_bytes |-> Len(f)]

\* the loop of build_partial with its early return; max_rows is a set:
\* {} for None, {m} for Some(m)
RECURSIVE PartialLoop(_, _, _, _)
PartialLoop(st, nls, granularity, max_rows) ==
    IF nls = <<>> THEN [st |-> st, stopped |-> FALSE]
    ELSE LET nx == ScanStep(st, Head(nls), granularity)
         IN IF \E m \in max_rows : nx.current_row >= m
            THEN [st |-> nx, stopped |-> TRUE]
            ELSE PartialLoop(nx, Tail(nls), granularity, max_rows)

build_partial_IndexedAtNewline(f, has_headers, granularity, max_rows) ==
    LET ds  == data_start(f, has_headers)
        nls == memchr_iter(f, ds, Len(f))
        r   == PartialLoop(ScanState(<<>>, <<>>, 0, ds), nls, granularity, max_rows)
    IN IF r.stopped
       THEN [offsets |-> r.st.offsets, row_numbers |-> r.st.row_numbers,
             granularity |-> granularity, total_rows |-> r.st.current_row,
             is_complete |-> FALSE, indexed_bytes |-> r.st.line_start - 1]
       ELSE [offsets |-> r.st.offsets, row_numbers |-> r.st.row_numbers,
             granularity |-> granularity,
             total_rows |-> FinalRows(f, ds, nls, r.st.current_row),
             is_complete |-> TRUE, indexed_bytes |-> Len(f)]

build_partial(f, has_headers, granularity, max_rows) ==
    LET ds  == data_start(f, has_headers)
        nls == memchr_iter(f, ds, Len(f))
        r   == PartialLoop(ScanState(<<>>, <<>>, 0, ds), nls, granularity, max_rows)
    IN IF r.stopped
       THEN [offsets |-> r.st.offsets, row_numbers |-> r.st.row_numbers,
             granularity |-> granularity, total_rows |-> r.st.current_row,
             is_complete |-> FALSE, indexed_bytes |-> r.st.line_start]
       ELSE [offsets |-> r.st.offsets, row_numbers |-> r.st.row_numbers,
             granularity |-> granularity,
             total_rows |-> FinalRows(f, ds, nls, r.st.current_row),
             is_complete |-> TRUE, indexed_bytes |-> Len(f)]

\* continue_build, end of the loop: the final row, is_complete, indexed_bytes
continue_finish(ix, f, st) ==
    [ix EXCEPT !.offsets = st.offsets, !.row_numbers = st.row_numbers,
               !.total_rows = IF st.line_start < Len(f)
                              THEN st.current_row + 1 ELSE st.current_row,
               !.indexed_bytes = Len(f), !.is_complete = TRUE]

\* continue_build, cancelled at a newline: write back where scanning stopped
continue_cancelled_MarksComplete(ix, st) ==
    [ix EXCEPT !.offsets = st.offsets, !.row_numbers = st.row_numbers,
               !.indexed_bytes = st.line_start, !.total_rows = st.current_row,
               !.is_complete = TRUE]

continue_cancelled(ix, st) ==
    [ix EXCEPT !.offsets = st.offsets, !.row_numbers = st.row_numbers,
               !.indexed_bytes = st.line_start, !.total_rows = st.current_row]

\* continue_build with cancel_flag = None: runs to the end of the file
continue_build(ix, f) ==
    IF ix.is_complete THEN ix
    ELSE IF ix.indexed_bytes >= Len(f) THEN [ix EXCEPT !.is_complete = TRUE]
    ELSE LET nls == memchr_iter(f, ix.indexed_bytes, Len(f))
             st  == ScanAll(ScanState(ix.offsets, ix.row_numbers,
                                      ix.total_rows, ix.indexed_bytes),
                            nls, ix.granularity)
         IN continue_finish(ix, f, st)

continue_build_flagged_KeepsOldCount(ix, f, checks) ==
    IF ix.is_complete THEN ix
    ELSE IF ix.indexed_bytes >= Len(f) THEN [ix EXCEPT !.is_complete = TRUE]
    ELSE LET nls == memchr_iter(f, ix.indexed_bytes, Len(f))
             st0 == ScanState(ix.offsets, ix.row_numbers, ix.total_rows, ix.indexed_bytes)
         IN IF checks < Len(nls)
            THEN [continue_cancelled(ix, ScanAll(st0, SubSeq(nls, 1, checks), ix.granularity))
                    EXCEPT !.total_rows = ix.total_rows]
            ELSE continue_finish(ix, f, ScanAll(st0, nls, ix.granularity))

\* continue_build with cancel_flag = Some(flag), the flag read clear at the
\* first `checks` newline iterations and set at the next one
continue_build_flagged(ix, f, checks) ==
    IF ix.is_complete THEN ix
    ELSE IF ix.indexed_bytes >= Len(f) THEN [ix EXCEPT !.is_complete = TRUE]
    ELSE LET nls == memchr_iter(f, ix.indexed_bytes, Len(f))
             st0 == ScanState(ix.offsets, ix.row_numbers, ix.total_rows, ix.indexed_bytes)
         IN IF checks < Len(nls)
            THEN continue_cancelled(ix, ScanAll(st0, SubSeq(nls, 1, checks), ix.granularity))
            ELSE continue_finish(ix, f, ScanAll(st0, nls, ix.granularity))

(* --------------------------- build_parallel ---------------------------- *)
\* scaled: PARALLEL_THRESHOLD is 100 MiB, min_chunk_size 1 MiB and the
\* backward search window of a chunk 1 KiB in the code
PARALLEL_THRESHOLD == 8
min_chunk_size == 2
chunk_search_window == 2

\* sort_unstable on a Vec<usize>: ascending, duplicates kept
RECURSIVE InsertSorted(_, _)
InsertSorted(s, x) ==
    IF s = <<>> THEN <<x>>
    ELSE IF x <= Head(s) THEN <<x>> \o s
    ELSE <<Head(s)>> \o InsertSorted(Tail(s), x)

RECURSIVE sort_unstable(_)
sort_unstable(s) ==
    IF s = <<>> THEN <<>> ELSE InsertSorted(sort_unstable(Tail(s)), Head(s))

\* the (chunk_start, chunk_end) pairs from current_pos to the end of the file
RECURSIVE Chunks(_, _, _)
Chunks(current_pos, total_bytes, effective_chunk_size) ==
    IF current_pos >= total_bytes THEN <<>>
    ELSE LET chunk_end == IF current_pos + effective_chunk_size < total_bytes
                          THEN current_pos + effective_chunk_size
                          ELSE total_bytes
         IN <<<<current_pos, chunk_end>>>>
            \o Chunks(chunk_end, total_bytes, effective_chunk_size)

\* where a chunk starts scanning: a non-first chunk searches the window
\* before chunk_start for its FIRST newline and starts right after it
actual_start(f, ds, chunk_start) ==
    IF chunk_start > ds
    THEN LET search_start == IF chunk_start >= chunk_search_window
                             THEN chunk_start - chunk_search_window ELSE 0
             pos == memchr(f, search_start, chunk_start)
         IN IF pos >= 0 THEN pos + 1 ELSE chunk_start
    ELSE chunk_start

\* the newline positions one chunk reports
ChunkNewlines(f, ds, chunk) ==
    memchr_iter(f, actual_start(f, ds, chunk[1]), chunk[2])

RECURSIVE FlatMapNewlines(_, _, _)
FlatMapNewlines(f, ds, chunks) ==
    IF chunks = <<>> THEN <<>>
    ELSE ChunkNewlines(f, ds, Head(chunks)) \o FlatMapNewlines(f, ds, Tail(chunks))

build_parallel(f, has_headers, granularity, num_threads) ==
    LET total_bytes == Len(f)
        ds == data_start(f, has_headers)
        chunk_size == (total_bytes - ds) \div num_threads
        effective_chunk_size == IF chunk_size > min_chunk_size
                                THEN chunk_size ELSE min_chunk_size
        chunks == Chunks(ds, total_bytes, effective_chunk_size)
        all_newlines == sort_unstable(FlatMapNewlines(f, ds, chunks))
        st == ScanAll(ScanState(<<>>, <<>>, 0, ds), all_newlines, granularity)
        total_rows ==
            IF all_newlines /= <<>>
            THEN IF all_newlines[Len(all_newlines)] + 1 < total_bytes
                 THEN Len(all_newlines) + 1 ELSE Len(all_newlines)
            ELSE IF ds < total_bytes THEN 1 ELSE 0
    IN [offsets |-> st.offsets, row_numbers |-> st.row_numbers,
        granularity |-> granularity, total_rows |-> total_rows,
        is_complete |-> TRUE, indexed_bytes |-> total_bytes]

\* RowIndex::build: the parallel builder above the size threshold
build(f, has_headers, granularity, num_threads) ==
    IF Len(f) > PARALLEL_THRESHOLD
    THEN build_parallel(f, has_headers, granularity, num_threads)
    ELSE build_with_progress(f, has_headers, granularity)

(* -------------------------------- seek --------------------------------- *)
\* slice::binary_search on the strictly increasing row_numbers:
\* Ok(i) (0-based) when found, else Err(insertion point)
binary_search(row_numbers, target) ==
    LET hits == {i \in 1..Len(row_numbers) : row_numbers[i] = target}
    IN IF hits /= {}
       THEN [found |-> TRUE, i |-> (CHOOSE i \in hits : TRUE) - 1]
       ELSE [found |-> FALSE,
             i |-> Cardinality({i \in 1..Len(row_numbers) : row_numbers[i] < target})]

SeekOk(offset, anchor_row) ==
    [ok |-> TRUE, offset |-> offset, anchor_row |-> anchor_row,
     err_row |-> 0, err_total_rows |-> 0]

SeekErr(row, total_rows) ==
    [ok |-> FALSE, offset |-> 0, anchor_row |-> 0,
     err_row |-> row, err_total_rows |-> total_rows]

seek_to_row_with_info_AllowsEnd(ix, target_row) ==
    IF target_row > ix.total_rows THEN SeekErr(target_row, ix.total_rows)
    ELSE IF ix.offsets = <<>> THEN SeekOk(0, 0)
    ELSE IF target_row < ix.row_numbers[1] THEN SeekOk(0, 0)
    ELSE LET bs  == binary_search(ix.row_numbers, target_row)
             idx == IF bs.found THEN bs.i ELSE bs.i - 1
         IN SeekOk(ix.offsets[idx + 1], ix.row_numbers[idx + 1])

seek_to_row_with_info(ix, target_row) ==
    IF target_row >= ix.total_rows THEN SeekErr(target_row, ix.total_rows)
    ELSE IF ix.offsets = <<>> THEN SeekOk(0, 0)
    ELSE IF target_row < ix.row_numbers[1] THEN SeekOk(0, 0)
    ELSE LET bs  == binary_search(ix.row_numbers, target_row)
             idx == IF bs.found THEN bs.i ELSE bs.i - 1
         IN SeekOk(ix.offsets[idx + 1], ix.row_numbers[idx + 1])

(* ----------------------------- estimator ------------------------------- *)
count_rows_exact(f, has_headers) ==
    LET so == start_offset(f)
        hp == memchr(f, so, Len(f))
    IN IF has_headers /\ hp < 0 THEN 0
       ELSE LET ds == IF has_headers THEN hp + 1 ELSE so
            IN IF ds >= Len(f) THEN 0
               ELSE LET newline_count == Len(memchr_iter(f, ds, Len(f)))
                    IN IF f[Len(f)] /= NL THEN newline_count + 1 ELSE newline_count

RowEstimate(estimated_rows, is_exact, sampled_bytes, total_bytes) ==
    [estimated_rows |-> estimated_rows, is_exact |-> is_exact,
     sampled_bytes |-> sampled_bytes, total_bytes |-> total_bytes]

\* ceil(a / b) for a >= 0, b > 0
CeilDiv(a, b) == (a + b - 1) \div b

\* scaled: an f64 has a significand of 53 bits, the floats of the model one
\* of FLOAT_BITS bits
FLOAT_BITS == 4

\* the positive rational n / d rounded to the nearest float, ties to even;
\* the float is returned as a rational [n, d]
RECURSIVE fround(_, _)
fround(n, d) ==
    IF n >= d * (2 ^ FLOAT_BITS)
    THEN LET r == fround(n, 2 * d) IN [n |-> 2 * r.n, d |-> r.d]
    ELSE IF n < d * (2 ^ (FLOAT_BITS - 1))
    THEN LET r == fround(2 * n, d) IN [n |-> r.n, d |-> 2 * r.d]
    ELSE LET m == n \div d
             twice == 2 * (n % d)
         IN [n |-> IF twice > d \/ (twice = d /\ m % 2 = 1) THEN m + 1 ELSE m,
             d |-> 1]

\* a as f64 / b as f64, for positive a and b given as floats
fdiv(a, b) == fround(a.n * b.d, a.d * b.n)

\* usize as f64, for a positive integer
as_f64(k) == fround(k, 1)

\* f64::ceil() as usize
fceil(x) == CeilDiv(x.n, x.d)

\* estimated_rows = ceil(data_bytes / (sampled_bytes / sample_rows)), both
\* quotients taken in f64
estimate_rows(f, has_headers, sample_size) ==
    LET total_bytes == Len(f)
    IN IF total_bytes <= sample_size
       THEN RowEstimate(count_rows_exact(f, has_headers), TRUE, total_bytes, total_bytes)
       ELSE LET ds == data_start(f, has_headers)
                sample_end == IF ds + sample_size < total_bytes
                              THEN ds + sample_size ELSE total_bytes
                sample_rows == Len(memchr_iter(f, ds, sample_end))
                sampled_bytes == sample_end - ds
            IN IF sample_rows = 0
               THEN RowEstimate(1, FALSE, sampled_bytes, total_bytes)
               ELSE LET bytes_per_row == fdiv(as_f64(sampled_bytes), as_f64(sample_rows))
                        data_bytes == total_bytes - ds
                    IN RowEstimate(fceil(fdiv(as_f64(data_bytes), bytes_per_row)),
                                   FALSE, sampled_bytes, total_bytes)

(* ------------------------------ CsvRecord ------------------------------ *)
\* the escaped-quote loop of parse_field: "" -> "
RECURSIVE Unescape(_, _)
Unescape(field, i) ==
    IF i > Len(field) THEN <<>>
    ELSE IF i < Len(field) /\ field[i] = QUOTE /\ field[i + 1] = QUOTE
         THEN <<QUOTE>> \o Unescape(field, i + 2)
         ELSE <<field[i]>> \o Unescape(field, i + 1)

parse_field_KeepsOuterQuotes(raw) ==
    IF \E i \in 1..Len(raw) : raw[i] = QUOTE
    THEN Unescape(raw, 1) ELSE raw

parse_field(raw) ==
    LET field == IF Len(raw) >= 2 /\ raw[1] = QUOTE /\ raw[Len(raw)] = QUOTE
                 THEN SubSeq(raw, 2, Len(raw) - 1) ELSE raw
    IN IF \E i \in 1..Len(field) : field[i] = QUOTE
       THEN Unescape(field, 1) ELSE field

\* the byte loop of parse_line from 1-based position i, with the start of the
\* current field (0-based, as in the code) and the quote state
RECURSIVE ParseFrom(_, _, _, _, _)
ParseFrom(line, delimiter, i, start, in_quotes) ==
    IF i > Len(line)
    THEN IF start < Len(line)
         THEN <<parse_field(SubSeq(line, start + 1, Len(line)))>>
         ELSE <<<<>>>>
    ELSE IF line[i] = QUOTE
         THEN ParseFrom(line, delimiter, i + 1, start, ~in_quotes)
    ELSE IF line[i] = delimiter /\ ~in_quotes
         THEN <<(IF start < i - 1
                 THEN parse_field(SubSeq(line, start + 1, i - 1))
                 ELSE <<>>)>>
              \o ParseFrom(line, delimiter, i + 1, i, in_quotes)
    ELSE ParseFrom(line, delimiter, i + 1, start, in_quotes)

\* CsvRecord::parse_line: the fields of one line, a trailing CR stripped
parse_line(raw, delimiter) ==
    LET line == IF raw /= <<>> /\ raw[Len(raw)] = CR
                THEN SubSeq(raw, 1, Len(raw) - 1) ELSE raw
    IN ParseFrom(line, delimiter, 1, 0, FALSE)

(* -------------------------- index persistence -------------------------- *)
\* bytes of path names
DOT == 46
EXT_CSV == <<99, 115, 118>>
EXT_IDX == <<46, 105, 100, 120>>

\* the last position of byte c in s, 0 when absent
LastIndexOf(s, c) ==
    LET S == {i \in 1..Len(s) : s[i] = c}
    IN IF S = {} THEN 0 ELSE Max(S)

\* Path::extension of a path that is a plain file name: the part after the
\* last dot, None ({}) without a dot or when the only dot leads the name
extension(path) ==
    LET d == LastIndexOf(path, DOT)
    IN IF d <= 1 THEN {} ELSE {SubSeq(path, d + 1, Len(path))}

\* Path::file_stem: the part before the last dot, else the whole name
file_stem(path) ==
    LET d == LastIndexOf(path, DOT)
    IN IF d <= 1 THEN path ELSE SubSeq(path, 1, d - 1)

\* PathBuf::set_extension: cut after the stem, then add "." and the extension
set_extension(path, ext) ==
    IF ext = <<>> THEN file_stem(path) ELSE file_stem(path) \o <<DOT>> \o ext

\* RowIndex::index_file_path: extension (or "csv" without one) plus ".idx"
\* set as the new extension; EXT_IDX holds the dot of ".idx"
index_file_path(csv_path) ==
    LET e == extension(csv_path)
        ext == IF e = {} THEN EXT_CSV ELSE CHOOSE x \in e : TRUE
    IN set_extension(csv_path, ext \o EXT_IDX)

\* scaled: the words of the index file are 8 bits wide instead of 64, and
\* isize::MAX is the largest positive signed word
U64_MAX == 255
ISIZE_MAX == 127

\* scaled: a SystemTime counts ticks of half a second; it is serialized as
\* whole seconds and the sub-second part
TICKS_PER_SEC == 2

IndexMetadata_new(csv_path, csv_size, csv_mtime, granularity, now) ==
    [csv_path |-> csv_path, csv_size |-> csv_size, csv_mtime |-> csv_mtime,
     index_version |-> 1, build_time |-> now, granularity |-> granularity]

\* bincode (fixed-width integers): a sequence is its length then its items,
\* a bool one word 0 / 1, a SystemTime its seconds then its sub-second part
ser_seq(s) == <<Len(s)>> \o s
ser_bool(b) == <<IF b THEN 1 ELSE 0>>
ser_time(t) == <<t \div TICKS_PER_SEC, t % TICKS_PER_SEC>>

ser_IndexMetadata(m) ==
    ser_seq(m.csv_path) \o <<m.csv_size>> \o ser_time(m.csv_mtime)
        \o <<m.index_version>> \o ser_time(m.build_time) \o <<m.granularity>>

ser_RowIndex(ix) ==
    ser_seq(ix.offsets) \o ser_seq(ix.row_numbers)
        \o <<ix.granularity, ix.total_rows>> \o ser_bool(ix.is_complete)
        \o <<ix.indexed_bytes>>

\* the words save_to_file writes: metadata length, metadata, index
save_to_file(ix, metadata) ==
    LET metadata_bytes == ser_IndexMetadata(metadata)
    IN <<Len(metadata_bytes)>> \o metadata_bytes \o ser_RowIndex(ix)

\* read n words from 1-based position pos, failing at the end of the input
take(cells, pos, n) ==
    IF pos + n - 1 <= Len(cells)
    THEN [ok |-> TRUE, val |-> SubSeq(cells, pos, pos + n - 1), pos |-> pos + n]
    ELSE [ok |-> FALSE, val |-> <<>>, pos |-> pos]

\* a length-prefixed sequence
de_seq(cells, pos) ==
    LET n == take(cells, pos, 1)
    IN IF ~n.ok THEN n ELSE take(cells, n.pos, n.val[1])

de_time(w) == w[1] * TICKS_PER_SEC + w[2]

\* bincode::deserialize::<IndexMetadata>: {} on error; trailing words allowed
de_IndexMetadata(cells) ==
    LET p == de_seq(cells, 1)
        r == take(cells, p.pos, 7)
    IN IF ~p.ok \/ ~r.ok THEN {}
       ELSE {[csv_path |-> p.val, csv_size |-> r.val[1],
              csv_mtime |-> de_time(SubSeq(r.val, 2, 3)),
              index_version |-> r.val[4],
              build_time |-> de_time(SubSeq(r.val, 5, 6)),
              granularity |-> r.val[7]]}

de_RowIndex_CompleteByDefault(cells) ==
    LET a == de_seq(cells, 1)
        b == de_seq(cells, a.pos)
        r == take(cells, b.pos, 4)
    IN IF ~a.ok \/ ~b.ok \/ ~r.ok THEN {}
       ELSE {[offsets |-> a.val, row_numbers |-> b.val,
              granularity |-> r.val[1], total_rows |-> r.val[2],
              is_complete |-> TRUE, indexed_bytes |-> r.val[4]]}

\* bincode::deserialize::<RowIndex>: {} on error (also on a bool word that is
\* neither 0 nor 1)
de_RowIndex(cells) ==
    LET a == de_seq(cells, 1)
        b == de_seq(cells, a.pos)
        r == take(cells, b.pos, 4)
    IN IF ~a.ok \/ ~b.ok \/ ~r.ok THEN {}
       ELSE IF r.val[3] \notin {0, 1} THEN {}
       ELSE {[offsets |-> a.val, row_numbers |-> b.val,
              granularity |-> r.val[1], total_rows |-> r.val[2],
              is_complete |-> (r.val[3] = 1), indexed_bytes |-> r.val[4]]}

LoadResult(res, index, metadata) ==
    [res |-> res, index |-> index, metadata |-> metadata]

\* RowIndex::load_from_file on the words of an existing file: "ok" with the
\* index and metadata, "err", or "panic" when the metadata buffer of
\* metadata_len bytes cannot be allocated (capacity overflow)
load_from_file(cells) ==
    LET len == take(cells, 1, 1)
    IN IF ~len.ok THEN LoadResult("err", {}, {})
       ELSE IF len.val[1] > ISIZE_MAX THEN LoadResult("panic", {}, {})
       ELSE LET mb == take(cells, len.pos, len.val[1])
            IN IF ~mb.ok THEN LoadResult("err", {}, {})
               ELSE LET metadata == de_IndexMetadata(mb.val)
                        index == de_RowIndex(SubSeq(cells, mb.pos, Len(cells)))
                    IN IF metadata = {} \/ index = {}
                       THEN LoadResult("err", {}, {})
                       ELSE LoadResult("ok", index, metadata)

\* Duration::as_secs of the absolute difference of two times
abs_diff_secs(a, b) == (IF a >= b THEN a - b ELSE b - a) \div TICKS_PER_SEC

\* RowIndex::is_index_valid; the source is given by the paths that exist
\* (canonicalize succeeds on these only), its size and its modification time
is_index_valid(csv_path, metadata, existing, size, mtime) ==
    IF csv_path \notin existing THEN FALSE
    ELSE IF metadata.csv_path \in existing /\ csv_path /= metadata.csv_path THEN FALSE
    ELSE IF size /= metadata.csv_size THEN FALSE
    ELSE IF abs_diff_secs(mtime, metadata.csv_mtime) > 1 THEN FALSE
    ELSE IF metadata.index_version /= 1 THEN FALSE
    ELSE TRUE

(* ------------------------------- writer -------------------------------- *)
\* str::replace('"', "\"\""): every quote doubled
RECURSIVE double_quotes(_)
double_quotes(field) ==
    IF field = <<>> THEN <<>>
    ELSE (IF Head(field) = QUOTE THEN <<QUOTE, QUOTE>> ELSE <<Head(field)>>)
         \o double_quotes(Tail(field))

Contains(field, b) == \E i \in 1..Len(field) : field[i] = b

escape_csv_field_KeepsQuotes(field, delimiter) ==
    IF Contains(field, delimiter) \/ Contains(field, QUOTE)
       \/ Contains(field, NL) \/ Contains(field, CR)
    THEN <<QUOTE>> \o field \o <<QUOTE>>
    ELSE field

\* escape_csv_field with always_quote = false
escape_csv_field(field, delimiter) ==
    IF Contains(field, delimiter) \/ Contains(field, QUOTE)
       \/ Contains(field, NL) \/ Contains(field, CR)
    THEN <<QUOTE>> \o double_quotes(field) \o <<QUOTE>>
    ELSE field

\* the line CsvCreator::save writes for one row: the escaped fields joined
\* by the delimiter
RECURSIVE write_line(_, _)
write_line(fields, delimiter) ==
    IF Len(fields) = 1 THEN escape_csv_field(fields[1], delimiter)
    ELSE escape_csv_field(fields[1], delimiter) \o <<delimiter>>
         \o write_line(Tail(fields), delimiter)

(* ------------------------------ PageCache ------------------------------ *)
\* PageCache::default capacity
CACHE_CAPACITY == 10

\* the cache as a sequence of entries, most recently used first; an entry
\* holds the page number, its owned records and (history) the index the
\* page was read under
CacheEntry(page, records, under) ==
    [page |-> page, records |-> records, under |-> under]

RECURSIVE CacheRemove(_, _)
CacheRemove(cache, page) ==
    IF cache = <<>> THEN <<>>
    ELSE IF Head(cache).page = page THEN Tail(cache)
    ELSE <<Head(cache)>> \o CacheRemove(Tail(cache), page)

\* LruCache::put: update and promote an existing key, else insert and evict
\* the least recently used entry when full
lru_put_EvictsNewest(cache, capacity, entry) ==
    IF \E i \in 1..Len(cache) : cache[i].page = entry.page
    THEN <<entry>> \o CacheRemove(cache, entry.page)
    ELSE IF Len(cache) >= capacity
         THEN <<entry>> \o Tail(cache)
         ELSE <<entry>> \o cache

lru_put(cache, capacity, entry) ==
    IF \E i \in 1..Len(cache) : cache[i].page = entry.page
    THEN <<entry>> \o CacheRemove(cache, entry.page)
    ELSE IF Len(cache) >= capacity
         THEN <<entry>> \o SubSeq(cache, 1, Len(cache) - 1)
         ELSE <<entry>> \o cache

\* PageCache::put on the reader's cache, made by PageCache::default()
cache_put(cache, entry) == lru_put(cache, CACHE_CAPACITY, entry)

\* PageCache::new(capacity): capacity.max(1) pages, nothing cached
PageCache_new(capacity) ==
    [capacity |-> IF capacity < 1 THEN 1 ELSE capacity, cache |-> <<>>]

\* PageCache::default()
PageCache_default == PageCache_new(CACHE_CAPACITY)

\* PageCache::put(page, records)
PageCache_put(pc, page, records) ==
    [pc EXCEPT !.cache = lru_put(pc.cache, pc.capacity, CacheEntry(page, records, <<>>))]

\* PageCache::get(page): a hit promotes the page to most recently used
PageCache_get(pc, page) ==
    IF \E i \in 1..Len(pc.cache) : pc.cache[i].page = page
    THEN LET e == pc.cache[CHOOSE i \in 1..Len(pc.cache) : pc.cache[i].page = page]
         IN [hit |-> TRUE, records |-> e.records,
             pc |-> [pc EXCEPT !.cache = <<e>> \o CacheRemove(pc.cache, page)]]
    ELSE [hit |-> FALSE, records |-> <<>>, pc |-> pc]

\* PageCache::clear
PageCache_clear(pc) == [pc EXCEPT !.cache = <<>>]

\* PageCache::len
PageCache_len(pc) == Len(pc.cache)

(* ------------------------------ read_page ------------------------------ *)
\* scaled: read_page searches at most 1000 bytes backwards for a row start
page_search_window == 2

\* the backward search for the newline before current_offset
realign(f, current_offset, ds) ==
    IF current_offset > 0 /\ current_offset > ds
    THEN LET search_start == IF current_offset >= page_search_window
                             THEN current_offset - page_search_window ELSE 0
             S == {i \in search_start..(current_offset - 1) : f[i + 1] = NL}
         IN IF S = {} THEN current_offset ELSE Max(S) + 1
    ELSE current_offset

\* the loop that skips from the anchor row to start_row
RECURSIVE skip_rows(_, _, _, _)
skip_rows(f, current_offset, current_row, start_row) ==
    IF current_row < start_row /\ current_offset < Len(f)
    THEN LET pos == memchr(f, current_offset, Len(f))
         IN IF pos < 0 THEN [offset |-> current_offset, row |-> current_row]
            ELSE IF current_row + 1 >= start_row
                 THEN [offset |-> pos + 1, row |-> current_row + 1]
                 ELSE skip_rows(f, pos + 1, current_row + 1, start_row)
    ELSE [offset |-> current_offset, row |-> current_row]

\* the loop that parses rows up to end_row or the end of the file
RECURSIVE parse_rows(_, _, _, _, _)
parse_rows(f, current_offset, current_row, end_row, delimiter) ==
    IF current_row < end_row /\ current_offset < Len(f)
    THEN LET pos == memchr(f, current_offset, Len(f))
             line_end == IF pos >= 0 THEN pos ELSE Len(f)
         IN <<parse_line(SubSeq(f, current_offset + 1, line_end), delimiter)>>
            \o parse_rows(f, line_end + 1, current_row + 1, end_row, delimiter)
    ELSE <<>>

\* what read_page does with the reader's index, published total_rows and
\* data_start_offset: the result, the records, the number of parse_line
\* calls made, and whether the page was put into the cache
ReadResult(ok, records, parsed, cached) ==
    [ok |-> ok, records |-> records, parsed |-> parsed, cached |-> cached]

read_page(f, idx, total_rows, ds, delimiter, page, page_size) ==
    LET start_row == page * page_size
        end_row == IF start_row + page_size < total_rows
                   THEN start_row + page_size ELSE total_rows
    IN IF start_row >= total_rows THEN ReadResult(TRUE, <<>>, 0, FALSE)
       ELSE LET sk == seek_to_row_with_info(idx, start_row)
            IN IF ~sk.ok THEN ReadResult(FALSE, <<>>, 0, FALSE)
               ELSE LET off0 == IF sk.offset > ds THEN sk.offset ELSE ds
                        row0 == IF sk.offset <= ds THEN 0 ELSE sk.anchor_row
                        at   == skip_rows(f, realign(f, off0, ds), row0, start_row)
                        recs == parse_rows(f, at.offset, at.row, end_row, delimiter)
                    IN ReadResult(TRUE, recs, Len(recs), TRUE)

(* ------------------------------- state --------------------------------- *)
VARIABLES
    file,           \* the mapped source bytes
    has_headers,    \* open option
    granularity,    \* open option index_granularity
    ix,             \* a RowIndex value under construction / lookup
    ixop,           \* the RowIndex operation that produced ix
    ixfrom,         \* the index continue_build was last called on
    seek_result,    \* {} or {result of the last seek_to_row_with_info on ix}
    interrupted,    \* cancelled continue_build calls made on ix since it was built
    rd,             \* "closed", then "open" or "open_fast": how the reader was made
    index,          \* CsvReader.index
    info_total_rows,\* CsvReader.info.total_rows, the published row count
    row_estimate,   \* CsvReader.row_estimate: {} for None, {e} for Some(e)
    cache,          \* CsvReader.cache
    data_start_offset, \* CsvReader.data_start_offset
    cancel_flag,    \* CsvReader.cancel_flag, shared with worker and handle
    build_progress, \* CsvReader.build_progress, shared with worker and handle
    worker,         \* the background thread of build_index_async
    handle,         \* the IndexBuildHandle: none, held, waiting, waited, dropped
    wait_result,    \* {} or {index returned by IndexBuildHandle::wait}
    last_read,      \* history: {} or {the last read_page call and its outcome}
    adopted,        \* history: {} or {the last update_index call}
    cancel_mark,    \* history: {} or {where the worker was when first signalled}
    cancelled,      \* history: cancel() was called on the handle of the last build
    reads,          \* number of read_page calls made
    builds,         \* number of build_index_async calls made
    src_mtime,      \* modification time of the source file, in ticks
    idx_file,       \* the file <source>.idx: its state and its words
    idx_damage,     \* history: what last happened to <source>.idx or the source
    opened,         \* history: {} or {the last open / open_fast call}
    saved_metadata, \* {} or {the metadata last handed to save_to_file by a client}
    load_result,    \* {} or {result of the last load_from_file}
    sample_size,    \* sample size handed to estimate_rows
    estimated,      \* {} or {result of the last estimate_rows}
    csv_path,       \* a source path handed to index_file_path
    index_path,     \* {} or {the path index_file_path returned}
    line,           \* a line handed to parse_line
    record,         \* {} or {the fields parse_line returned}
    rewritten,      \* {} or {the fields of record written back as a line}
    editor,         \* {} or {the CsvEditor: its row counts and tracked changes}
    edits,          \* number of successful editing calls made on the editor
    save_stats,     \* {} or {outcome of the last CsvEditor::save}
    page_cache,     \* a PageCache on its own: its capacity and its LruCache
    lru_hist        \* history: how page_cache was made, its last call, use times

inputs == <<file, has_headers, granularity, src_mtime>>
fsvars == <<idx_file, idx_damage, opened>>
edvars == <<editor, edits, save_stats>>
lruvars == <<page_cache, lru_hist>>
pure == <<saved_metadata, load_result, sample_size, estimated, csv_path, index_path, line,
          record, rewritten, edvars, lruvars>>
ixvars == <<ix, ixop, ixfrom, seek_result, interrupted>>
rdstate == <<rd, index, info_total_rows, row_estimate, cache, data_start_offset>>
shared == <<cancel_flag, build_progress>>
bgvars == <<worker, handle, wait_result>>
history == <<last_read, adopted, cancel_mark, cancelled, reads, builds>>
rdvars == <<rdstate, shared, bgvars, history>>
vars == <<inputs, ixvars, rdvars, fsvars, pure>>

\* the path of the source the reader opens ("a.c"), the only existing source
SourcePath == <<97, DOT, 99>>
ExistingPaths == {SourcePath}

\* largest change of the source's modification time, in ticks
MaxMtimeShift == 4

InitInputs ==
    /\ file \in Files
    /\ has_headers \in BOOLEAN
    /\ granularity \in 1..MaxGranularity
    /\ src_mtime = MaxMtimeShift

\* <source>.idx: "missing", "present" with its words, or "locked" (it exists
\* and can be neither read nor written)
IdxFile(state, cells) == [state |-> state, cells |-> cells]

InitFs ==
    /\ idx_file = IdxFile("missing", <<>>)
    /\ idx_damage = "none"
    /\ opened = {}

\* history of a PageCache: how it was made ("new" or "default"), the calls
\* made on it, the last call (its page, the pages cached before it, their
\* use times before it) and the time each page was last put or hit
LruHist(made, clock, op, page, before, used_before, used) ==
    [made |-> made, clock |-> clock, op |-> op, page |-> page, before |-> before,
     used_before |-> used_before, used |-> used]

MaxCachePage == 2
NeverUsed == [p \in 0..MaxCachePage |-> 0]

\* the reader's own kind of cache, untouched
InitLru ==
    /\ page_cache = PageCache_default
    /\ lru_hist = LruHist("default", 0, "made", 0, <<>>, NeverUsed, NeverUsed)

\* the variables of the operations on paths, lines and estimates, at rest
InitPure ==
    /\ InitLru
    /\ saved_metadata = {}
    /\ load_result = {}
    /\ sample_size = 1
    /\ estimated = {}
    /\ csv_path = SourcePath
    /\ index_path = {}
    /\ line = <<>>
    /\ record = {}
    /\ rewritten = {}
    /\ editor = {}
    /\ edits = 0
    /\ save_stats = {}

InitIx ==
    /\ ix = RowIndex_new(granularity)
    /\ ixop = "new"
    /\ ixfrom = RowIndex_new(granularity)
    /\ seek_result = {}
    /\ interrupted = 0

(* ------------------------------ CsvReader ------------------------------ *)
\* largest page number and page size handed to read_page
MaxPage == 2
MaxPageSize == 2
\* read_page calls and build_index_async calls made on one reader
MaxReads == 2
MaxBuilds == 2

\* scaled: build_fast_index has SMALL_FILE_THRESHOLD 10 MiB,
\* MEDIUM_FILE_THRESHOLD 100 MiB, sample sizes 256 / 128 / 64 KiB,
\* TINY_FILE_THRESHOLD 1 MiB and INITIAL_ROWS 500
SMALL_FILE_THRESHOLD == 5
MEDIUM_FILE_THRESHOLD == 7
SAMPLE_SMALL == 3
SAMPLE_MEDIUM == 2
SAMPLE_LARGE == 1
TINY_FILE_THRESHOLD == 3
INITIAL_ROWS == 1

\* read_headers / count_columns_first_line succeed: the first line (up to
\* the first LF, else the first CR, else the end) is not empty
first_line_ok(f) ==
    LET start == start_offset(f)
        lf == memchr(f, start, Len(f))
        crs == {o \in start..(Len(f) - 1) : f[o + 1] = CR}
        line_end == IF lf >= 0 THEN lf
                    ELSE IF crs /= {} THEN Min(crs) ELSE Len(f)
    IN line_end /= start

\* info.total_cols: the number of fields of the first line (headers.len()
\* with headers, count_columns_first_line without)
total_cols(f, delimiter) ==
    LET start == start_offset(f)
        lf == memchr(f, start, Len(f))
        crs == {o \in start..(Len(f) - 1) : f[o + 1] = CR}
        line_end == IF lf >= 0 THEN lf
                    ELSE IF crs /= {} THEN Min(crs) ELSE Len(f)
    IN Len(parse_line(SubSeq(f, start + 1, line_end), delimiter))

sample_size_for(file_size) ==
    IF file_size < SMALL_FILE_THRESHOLD THEN SAMPLE_SMALL
    ELSE IF file_size < MEDIUM_FILE_THRESHOLD THEN SAMPLE_MEDIUM
    ELSE SAMPLE_LARGE

\* build_fast_index: (index, total_rows, row_estimate)
build_fast_index(f, hh, g, num_threads) ==
    LET estimate == estimate_rows(f, hh, sample_size_for(Len(f)))
    IN IF Len(f) <= TINY_FILE_THRESHOLD \/ estimate.is_exact
       THEN LET full == build(f, hh, g, num_threads)
            IN [index |-> full, total_rows |-> full.total_rows, row_estimate |-> {}]
       ELSE LET part == build_partial(f, hh, g, {INITIAL_ROWS})
            IN [index |-> part,
                total_rows |-> IF estimate.estimated_rows > part.total_rows
                               THEN estimate.estimated_rows ELSE part.total_rows,
                row_estimate |-> {estimate}]

WorkerIdle ==
    [pc |-> "idle", index |-> RowIndex_new(1), st |-> ScanState(<<>>, <<>>, 0, 0),
     nls |-> <<>>, completed |-> FALSE, file_size |-> 0, file_mtime |-> 0]

InitReader ==
    /\ rd = "closed"
    /\ index = RowIndex_new(granularity)
    /\ info_total_rows = 0
    /\ row_estimate = {}
    /\ cache = <<>>
    /\ data_start_offset = 0
    /\ cancel_flag = FALSE
    /\ build_progress = 0
    /\ worker = WorkerIdle
    /\ handle = "none"
    /\ wait_result = {}
    /\ last_read = {}
    /\ adopted = {}
    /\ cancel_mark = {}
    /\ cancelled = FALSE
    /\ reads = 0
    /\ builds = 0

\* File::create + write_all of save_to_file: the words replace the file's
\* contents; on a locked file the save fails and the caller goes on
write_idx(idxf, cells) ==
    IF idxf.state = "locked" THEN idxf ELSE IdxFile("present", cells)

\* the load attempt of open and open_fast: load_from_file when the index
\* file exists, then is_index_valid and the granularity comparison
TryLoad(res, accepted, loaded_index, metadata) ==
    [res |-> res, accepted |-> accepted, index |-> loaded_index, metadata |-> metadata]

try_load_index(f, g, mtime, idxf) ==
    IF idxf.state = "missing" THEN TryLoad("ok", FALSE, {}, {})
    ELSE IF idxf.state = "locked" THEN TryLoad("ok", FALSE, {}, {})
    ELSE LET l == load_from_file(idxf.cells)
         IN IF l.res = "panic" THEN TryLoad("panic", FALSE, {}, {})
            ELSE IF l.res = "err" THEN TryLoad("ok", FALSE, {}, {})
            ELSE LET m == CHOOSE m \in l.metadata : TRUE
                 IN TryLoad("ok",
                            /\ is_index_valid(SourcePath, m, ExistingPaths, Len(f), mtime)
                            /\ m.granularity = g,
                            l.index, l.metadata)

\* CsvReader::load_or_build_index: the loaded index when accepted, else a
\* full build that is saved to <source>.idx
load_or_build_index(f, hh, g, mtime, idxf, num_threads) ==
    LET t == try_load_index(f, g, mtime, idxf)
    IN IF t.res = "panic"
       THEN [res |-> "panic", index |-> RowIndex_new(g), total_rows |-> 0,
             idx_file |-> idxf, loaded |-> FALSE, metadata |-> {}]
       ELSE IF t.accepted
       THEN LET got == CHOOSE x \in t.index : TRUE
            IN [res |-> "ok", index |-> got, total_rows |-> got.total_rows,
                idx_file |-> idxf, loaded |-> TRUE, metadata |-> t.metadata]
       ELSE LET built == build(f, hh, g, num_threads)
                metadata == IndexMetadata_new(SourcePath, Len(f), mtime, g, mtime)
            IN [res |-> "ok", index |-> built, total_rows |-> built.total_rows,
                idx_file |-> write_idx(idxf, save_to_file(built, metadata)),
                loaded |-> FALSE, metadata |-> t.metadata]

\* history of an open call: which constructor, what had happened to the
\* index file or the source before it, how it ended, whether the persisted
\* index was used, the metadata that was loaded, the published counts and
\* the outcome of the open before it
OpenedBy(kind, o) ==
    {[kind |-> kind, damage |-> idx_damage, idx_state |-> idx_file.state,
      res |-> o.res, loaded |-> o.loaded, metadata |-> o.metadata,
      total_rows |-> o.total_rows, total_cols |-> total_cols(file, COMMA),
      prev |-> {[kind |-> p.kind, res |-> p.res, total_rows |-> p.total_rows,
                 total_cols |-> p.total_cols] : p \in opened}]}

\* CsvReader::open: headers, load_or_build_index, data_start_offset
Open ==
    /\ rd = "closed"
    /\ first_line_ok(file)
    /\ \E num_threads \in 1..MaxThreads :
        \E o \in {load_or_build_index(file, has_headers, granularity, src_mtime,
                                      idx_file, num_threads)} :
           /\ index' = o.index
           /\ info_total_rows' = o.total_rows
           /\ idx_file' = o.idx_file
           /\ opened' = OpenedBy("open", o)
           /\ rd' = IF o.res = "panic" THEN "panicked" ELSE "open"
    /\ row_estimate' = {}
    /\ cache' = <<>>
    /\ data_start_offset' = data_start(file, has_headers)
    /\ cancel_flag' = FALSE
    /\ build_progress' = 0
    /\ UNCHANGED <<inputs, pure, ixvars, bgvars, history, idx_damage>>

\* the index part of open_fast: the loaded index when accepted, else
\* build_fast_index; nothing is saved
open_fast_index(f, hh, g, mtime, idxf, num_threads) ==
    LET t == try_load_index(f, g, mtime, idxf)
    IN IF t.res = "panic"
       THEN [res |-> "panic", index |-> RowIndex_new(g), total_rows |-> 0,
             row_estimate |-> {}, loaded |-> FALSE, metadata |-> {}]
       ELSE IF t.accepted
       THEN LET got == CHOOSE x \in t.index : TRUE
            IN [res |-> "ok", index |-> got, total_rows |-> got.total_rows,
                row_estimate |-> {}, loaded |-> TRUE, metadata |-> t.metadata]
       ELSE LET fast == build_fast_index(f, hh, g, num_threads)
            IN [res |-> "ok", index |-> fast.index, total_rows |-> fast.total_rows,
                row_estimate |-> fast.row_estimate, loaded |-> FALSE,
                metadata |-> t.metadata]

\* CsvReader::open_fast
OpenFast ==
    /\ rd = "closed"
    /\ first_line_ok(file)
    /\ \E num_threads \in 1..MaxThreads :
        \E o \in {open_fast_index(file, has_headers, granularity, src_mtime,
                                  idx_file, num_threads)} :
           /\ index' = o.index
           /\ info_total_rows' = o.total_rows
           /\ row_estimate' = o.row_estimate
           /\ opened' = OpenedBy("open_fast", o)
           /\ rd' = IF o.res = "panic" THEN "panicked" ELSE "open_fast"
    /\ cache' = <<>>
    /\ data_start_offset' = data_start(file, has_headers)
    /\ cancel_flag' = FALSE
    /\ build_progress' = 0
    /\ UNCHANGED <<inputs, pure, ixvars, bgvars, history, idx_file, idx_damage>>

\* CsvReader::read_page(page, page_size)
ReadPage ==
    /\ rd \in {"open", "open_fast"}
    /\ reads < MaxReads
    /\ \E page \in 0..MaxPage, page_size \in 1..MaxPageSize :
        LET r == read_page(file, index, info_total_rows, data_start_offset,
                           COMMA, page, page_size)
        IN /\ cache' = IF r.cached
                       THEN cache_put(cache, CacheEntry(page, r.records, index))
                       ELSE cache
           /\ last_read' = {[page |-> page, page_size |-> page_size, res |-> r,
                             repeat |-> \E l \in last_read :
                                          /\ l.page = page
                                          /\ l.page_size = page_size
                                          /\ l.res.ok,
                             before |-> IF last_read = {} THEN <<>>
                                        ELSE (CHOOSE l \in last_read : TRUE).res.records]}
    /\ reads' = reads + 1
    /\ UNCHANGED <<inputs, fsvars, pure, ixvars, rd, index, info_total_rows, row_estimate,
                   data_start_offset, shared, bgvars, adopted, cancel_mark, cancelled, builds>>

\* CsvReader::clear_cache
ClearCache ==
    /\ rd \in {"open", "open_fast"}
    /\ cache /= <<>>
    /\ cache' = <<>>
    /\ last_read' = {}
    /\ UNCHANGED <<inputs, fsvars, pure, ixvars, rd, index, info_total_rows, row_estimate,
                   data_start_offset, shared, bgvars, adopted, cancel_mark,
                   cancelled, reads, builds>>

\* CsvReader::build_index_async: clone the index, share flag and counter,
\* spawn the worker; the worker's entry into continue_build (its early
\* returns and the set-up of the newline loop) touches only its own clone
BuildIndexAsync ==
    /\ rd \in {"open", "open_fast"}
    /\ builds < MaxBuilds
    /\ worker.pc \in {"idle", "done"}
    /\ handle \notin {"held", "waiting"}
    /\ LET nls == memchr_iter(file, index.indexed_bytes, Len(file))
       IN worker' =
            IF index.is_complete
            THEN [pc |-> "save", index |-> index, st |-> WorkerIdle.st,
                  nls |-> <<>>, completed |-> TRUE,
                  file_size |-> Len(file), file_mtime |-> src_mtime]
            ELSE IF index.indexed_bytes >= Len(file)
            THEN [pc |-> "save", index |-> [index EXCEPT !.is_complete = TRUE],
                  st |-> WorkerIdle.st, nls |-> <<>>, completed |-> TRUE,
                  file_size |-> Len(file), file_mtime |-> src_mtime]
            ELSE [pc |-> IF nls = <<>> THEN "tail" ELSE "check",
                  index |-> index,
                  st |-> ScanState(index.offsets, index.row_numbers,
                                   index.total_rows, index.indexed_bytes),
                  nls |-> nls, completed |-> FALSE,
                  file_size |-> Len(file), file_mtime |-> src_mtime]
    /\ handle' = "held"
    /\ wait_result' = {}
    /\ cancel_mark' = {}
    /\ cancelled' = FALSE
    /\ builds' = builds + 1
    /\ UNCHANGED <<inputs, fsvars, pure, ixvars, rdstate, shared, last_read, adopted, reads>>

WorkerCheck_IgnoresFlag ==
    /\ worker.pc = "check"
    /\ worker' = [worker EXCEPT !.pc = "scan"]
    /\ UNCHANGED <<inputs, fsvars, pure, ixvars, rdstate, shared, handle, wait_result, history>>

\* continue_build, top of a newline iteration: load the cancellation flag
WorkerCheck ==
    /\ worker.pc = "check"
    /\ worker' = IF cancel_flag
                 THEN [worker EXCEPT !.pc = "done",
                                     !.index = continue_cancelled(worker.index, worker.st),
                                     !.completed = FALSE]
                 ELSE [worker EXCEPT !.pc = "scan"]
    /\ UNCHANGED <<inputs, fsvars, pure, ixvars, rdstate, shared, handle, wait_result, history>>

\* continue_build, rest of the iteration: count the row, record the anchor,
\* store the progress
WorkerScan ==
    /\ worker.pc = "scan"
    /\ worker' = [worker EXCEPT
                    !.st = ScanStep(worker.st, Head(worker.nls), worker.index.granularity),
                    !.nls = Tail(worker.nls),
                    !.pc = IF Tail(worker.nls) = <<>> THEN "tail" ELSE "check"]
    /\ build_progress' = Head(worker.nls)
    /\ UNCHANGED <<inputs, fsvars, pure, ixvars, rdstate, cancel_flag, handle, wait_result, history>>

WorkerTail_PublishesIndex ==
    /\ worker.pc = "tail"
    /\ worker' = [worker EXCEPT !.pc = "save",
                                !.index = continue_finish(worker.index, file, worker.st),
                                !.completed = TRUE]
    /\ build_progress' = Len(file)
    /\ index' = continue_finish(worker.index, file, worker.st)
    /\ UNCHANGED <<inputs, fsvars, pure, ixvars, rd, info_total_rows, row_estimate, cache,
                   data_start_offset, cancel_flag, handle, wait_result, history>>

\* continue_build after the loop: the final row, is_complete, progress
WorkerTail ==
    /\ worker.pc = "tail"
    /\ worker' = [worker EXCEPT !.pc = "save",
                                !.index = continue_finish(worker.index, file, worker.st),
                                !.completed = TRUE]
    /\ build_progress' = Len(file)
    /\ UNCHANGED <<inputs, fsvars, pure, ixvars, rdstate, cancel_flag, handle, wait_result, history>>

\* the worker after continue_build returned Ok(true): save the index with
\* the size and modification time read when the worker was spawned
WorkerSave ==
    /\ worker.pc = "save"
    /\ idx_file' = write_idx(idx_file,
                             save_to_file(worker.index,
                                          IndexMetadata_new(SourcePath, worker.file_size,
                                                            worker.file_mtime, granularity,
                                                            src_mtime)))
    /\ worker' = [worker EXCEPT !.pc = "done"]
    /\ UNCHANGED <<inputs, pure, ixvars, rdstate, shared, handle, wait_result,
                   history, idx_damage, opened>>

WorkerStep == WorkerCheck \/ WorkerScan \/ WorkerTail \/ WorkerSave

\* where the worker is when the flag is first set: whether another flag
\* check is still to come, and the row count it may reach before that check
SignalMark(by) ==
    IF cancel_mark /= {} \/ cancel_flag THEN cancel_mark
    ELSE {[by |-> by,
           more |-> \/ worker.pc = "check"
                    \/ (worker.pc = "scan" /\ Len(worker.nls) >= 2),
           limit |-> IF worker.pc = "scan" THEN worker.st.current_row + 1
                     ELSE worker.st.current_row,
           anchors |-> IF worker.pc = "scan"
                       THEN Len(ScanStep(worker.st, Head(worker.nls),
                                         worker.index.granularity).row_numbers)
                       ELSE Len(worker.st.row_numbers)]}

\* IndexBuildHandle::cancel
Cancel ==
    /\ handle = "held"
    /\ cancel_flag' = TRUE
    /\ cancel_mark' = SignalMark("cancel")
    /\ cancelled' = TRUE
    /\ UNCHANGED <<inputs, fsvars, pure, ixvars, rdstate, build_progress, bgvars,
                   last_read, adopted, reads, builds>>

\* IndexBuildHandle::wait, the call: the handle is consumed and joins
WaitCall ==
    /\ handle = "held"
    /\ handle' = "waiting"
    /\ UNCHANGED <<inputs, fsvars, pure, ixvars, rdstate, shared, worker, wait_result, history>>

\* IndexBuildHandle::wait, the return: the join yields the worker's index and
\* the consumed handle is dropped, which stores the cancellation flag
WaitReturn ==
    /\ handle = "waiting"
    /\ worker.pc = "done"
    /\ handle' = "waited"
    /\ wait_result' = {worker.index}
    /\ cancel_flag' = TRUE
    /\ UNCHANGED <<inputs, fsvars, pure, ixvars, rdstate, build_progress, worker, history>>

DropHandle_NoStore ==
    /\ handle = "held"
    /\ handle' = "dropped"
    /\ cancel_mark' = SignalMark("drop")
    /\ UNCHANGED <<inputs, fsvars, pure, ixvars, rdstate, shared, worker, wait_result,
                   last_read, adopted, cancelled, reads, builds>>

\* impl Drop for IndexBuildHandle, the handle dropped without wait
DropHandle ==
    /\ handle = "held"
    /\ handle' = "dropped"
    /\ cancel_flag' = TRUE
    /\ cancel_mark' = SignalMark("drop")
    /\ UNCHANGED <<inputs, fsvars, pure, ixvars, rdstate, build_progress, worker, wait_result,
                   last_read, adopted, cancelled, reads, builds>>

\* the fields update_index assigns
update_index_KeepsCache(new_index, old_cache) ==
    [total_rows |-> new_index.total_rows, index |-> new_index,
     row_estimate |-> {}, cache |-> old_cache]

update_index(new_index, old_cache) ==
    [total_rows |-> new_index.total_rows, index |-> new_index,
     row_estimate |-> {}, cache |-> <<>>]

\* CsvReader::update_index(new_index), new_index the result of wait
UpdateIndex ==
    /\ rd \in {"open", "open_fast"}
    /\ \E new_index \in wait_result :
        LET u == update_index(new_index, cache)
        IN /\ info_total_rows' = u.total_rows
           /\ index' = u.index
           /\ row_estimate' = u.row_estimate
           /\ cache' = u.cache
           /\ adopted' = {[old |-> index, new |-> new_index,
                           had_cache |-> cache /= <<>>,
                           had_estimate |-> row_estimate /= {}]}
    /\ wait_result' = {}
    /\ last_read' = {}
    /\ UNCHANGED <<inputs, fsvars, pure, ixvars, rd, data_start_offset, shared, worker, handle,
                   cancel_mark, cancelled, reads, builds>>

Init == InitInputs /\ InitIx /\ InitReader /\ InitFs /\ InitPure

Next ==
    \/ Open
    \/ OpenFast
    \/ ReadPage
    \/ ClearCache
    \/ BuildIndexAsync
    \/ WorkerCheck
    \/ WorkerScan
    \/ WorkerTail
    \/ WorkerSave
    \/ Cancel
    \/ WaitCall
    \/ WaitReturn
    \/ DropHandle
    \/ UpdateIndex

Spec == Init /\ [][Next]_vars

\* the scheduler runs the worker thread, and a join returns once it ended
SpecFair == Init /\ [][Next]_vars /\ WF_vars(WorkerStep) /\ WF_vars(WaitReturn)

(* ------------- the reader reopened over a changing file system --------- *)
\* the reader is dropped; runs are followed up to the reopen that comes
\* after a change of <source>.idx or of the source
Close ==
    /\ rd \in {"open", "open_fast"}
    /\ handle \notin {"held", "waiting"}
    /\ idx_damage = "none"
    /\ rd' = "closed"
    /\ index' = RowIndex_new(granularity)
    /\ info_total_rows' = 0
    /\ row_estimate' = {}
    /\ cache' = <<>>
    /\ data_start_offset' = 0
    /\ cancel_flag' = FALSE
    /\ build_progress' = 0
    /\ UNCHANGED <<inputs, fsvars, pure, ixvars, bgvars, history>>

\* after the first reader is gone one thing happens to <source>.idx or to
\* the source
Untouched ==
    /\ rd = "closed"
    /\ opened /= {}
    /\ \A o \in opened : o.prev = {}
    /\ idx_damage = "none"

\* <source>.idx is deleted
RemoveIdx ==
    /\ Untouched
    /\ idx_file.state = "present"
    /\ idx_file' = IdxFile("missing", <<>>)
    /\ idx_damage' = "missing"
    /\ UNCHANGED <<inputs, pure, ixvars, rdvars, opened>>

\* <source>.idx loses its tail
TruncateIdx ==
    /\ Untouched
    /\ idx_file.state = "present"
    /\ \E n \in 0..(Len(idx_file.cells) - 1) :
        idx_file' = IdxFile("present", SubSeq(idx_file.cells, 1, n))
    /\ idx_damage' = "truncated"
    /\ UNCHANGED <<inputs, pure, ixvars, rdvars, opened>>

\* the values a damaged word may take
CorruptWords(old) == {0, (old + 1) % (U64_MAX + 1), U64_MAX} \ {old}

\* one word of <source>.idx changes
CorruptIdx ==
    /\ Untouched
    /\ idx_file.state = "present"
    /\ \E i \in 1..Len(idx_file.cells) :
        \E w \in CorruptWords(idx_file.cells[i]) :
            idx_file' = IdxFile("present", [idx_file.cells EXCEPT ![i] = w])
    /\ idx_damage' = "corrupt"
    /\ UNCHANGED <<inputs, pure, ixvars, rdvars, opened>>

\* <source>.idx becomes unreadable
LockIdx ==
    /\ Untouched
    /\ idx_file.state = "present"
    /\ idx_file' = IdxFile("locked", idx_file.cells)
    /\ idx_damage' = "unreadable"
    /\ UNCHANGED <<inputs, pure, ixvars, rdvars, opened>>

\* the contents a rewrite of the source may leave: a byte appended, the last
\* byte dropped, one byte after the BOM replaced, or the same bytes
Rewrites(f) ==
    {f} \cup {Append(f, b) : b \in Alphabet}
        \cup {SubSeq(f, 1, Len(f) - 1) : n \in {1} \cap 1..(Len(f) - start_offset(f))}
        \cup {[f EXCEPT ![i] = b] : i \in (start_offset(f) + 1)..Len(f), b \in Alphabet}

\* the source is rewritten or touched: new contents, new modification time
ModifySource ==
    /\ Untouched
    /\ \E g \in Rewrites(file), d \in (0 - MaxMtimeShift)..MaxMtimeShift :
        /\ g /= file \/ d /= 0
        /\ file' = g
        /\ src_mtime' = src_mtime + d
    /\ idx_damage' = "modified"
    /\ UNCHANGED <<has_headers, granularity, pure, ixvars, rdvars, idx_file, opened>>

\* the next open of the source is called with other options: has_headers,
\* index_granularity or both
ChangeOptions ==
    /\ Untouched
    /\ \E hh \in BOOLEAN, g \in 1..MaxGranularity :
        /\ <<hh, g>> /= <<has_headers, granularity>>
        /\ has_headers' = hh
        /\ granularity' = g
        /\ index' = RowIndex_new(g)
    /\ idx_damage' = "options"
    /\ UNCHANGED <<file, src_mtime, pure, ixvars, rd, info_total_rows, row_estimate, cache,
                   data_start_offset, shared, bgvars, history, idx_file, opened>>

\* the indexes a client of RowIndex may hold for the source: a full build
\* or a partial one
ClientIndexes ==
    {build_with_progress(file, has_headers, granularity)}
        \cup {build_partial(file, has_headers, granularity, {m}) : m \in 0..MaxPartialRows}

\* a client calls index.save_to_file(path, &metadata) with the metadata of
\* the source, before any reader exists
SaveToFile ==
    /\ rd = "closed"
    /\ opened = {}
    /\ idx_damage = "none"
    /\ idx_file.state = "missing"
    /\ \E x \in ClientIndexes, now \in src_mtime..(src_mtime + 1) :
        LET metadata == IndexMetadata_new(SourcePath, Len(file), src_mtime,
                                          granularity, now)
        IN /\ ix' = x
           /\ saved_metadata' = {metadata}
           /\ idx_file' = write_idx(idx_file, save_to_file(x, metadata))
    /\ ixop' = "save_to_file"
    /\ idx_damage' = "saved"
    /\ UNCHANGED <<inputs, ixfrom, seek_result, interrupted, rdvars, opened, load_result,
                   sample_size, estimated, csv_path, index_path, line, record,
                   rewritten, edvars, lruvars>>

\* the client calls RowIndex::load_from_file on the file it saved
LoadFromFile ==
    /\ rd = "closed"
    /\ idx_damage = "saved"
    /\ idx_file.state = "present"
    /\ load_result = {}
    /\ load_result' = {load_from_file(idx_file.cells)}
    /\ UNCHANGED <<inputs, fsvars, ixvars, rdvars, saved_metadata, sample_size,
                   estimated, csv_path, index_path, line, record, rewritten, edvars, lruvars>>

InitPersist == InitInputs /\ InitIx /\ InitReader /\ InitFs /\ InitPure

NextPersist ==
    \/ Open
    \/ OpenFast
    \/ Close
    \/ RemoveIdx
    \/ TruncateIdx
    \/ CorruptIdx
    \/ LockIdx
    \/ ModifySource
    \/ ChangeOptions
    \/ SaveToFile
    \/ LoadFromFile

SpecPersist == InitPersist /\ [][NextPersist]_vars

(* --------------- RowIndex operations applied to the inputs ------------- *)
IxBuildSerial ==
    /\ ix' = build_with_progress(file, has_headers, granularity)
    /\ ixop' = "build_with_progress"
    /\ seek_result' = {}
    /\ interrupted' = 0
    /\ UNCHANGED <<inputs, fsvars, pure, ixfrom, rdvars>>

IxBuildParallel ==
    \E num_threads \in 1..MaxThreads :
        /\ ix' = build_parallel(file, has_headers, granularity, num_threads)
        /\ ixop' = "build_parallel"
        /\ seek_result' = {}
        /\ interrupted' = 0
        /\ UNCHANGED <<inputs, fsvars, pure, ixfrom, rdvars>>

IxBuildPartial ==
    \E max_rows \in {{}} \cup {{m} : m \in 0..MaxPartialRows} :
        /\ ix' = build_partial(file, has_headers, granularity, max_rows)
        /\ ixop' = "build_partial"
        /\ seek_result' = {}
        /\ interrupted' = 0
        /\ UNCHANGED <<inputs, fsvars, pure, ixfrom, rdvars>>

\* continue_build run to the end
IxContinueBuild ==
    /\ ixop \in {"build_partial", "continue_build", "continue_build_cancelled"}
    /\ ix' = continue_build(ix, file)
    /\ ixfrom' = ix
    /\ ixop' = "continue_build"
    /\ seek_result' = {}
    /\ UNCHANGED <<inputs, fsvars, pure, rdvars, interrupted>>

\* continue_build that returns Ok(false): the flag was set before one of its
\* newline iterations
IxContinueCancelled ==
    /\ ixop \in {"build_partial", "continue_build_cancelled"}
    /\ interrupted < MaxInterrupts
    /\ ~ix.is_complete
    /\ \E checks \in 0..MaxBody :
        /\ checks < Len(memchr_iter(file, ix.indexed_bytes, Len(file)))
        /\ ix' = continue_build_flagged(ix, file, checks)
    /\ ixfrom' = ix
    /\ ixop' = "continue_build_cancelled"
    /\ seek_result' = {}
    /\ interrupted' = interrupted + 1
    /\ UNCHANGED <<inputs, fsvars, pure, rdvars>>

IxSeek ==
    /\ ixop /= "new"
    /\ \E target_row \in 0..(MaxBody + 1) :
        seek_result' = {[target |-> target_row,
                         res |-> seek_to_row_with_info(ix, target_row)]}
    /\ UNCHANGED <<inputs, fsvars, pure, ix, ixop, ixfrom, rdvars, interrupted>>

InitIndex == InitInputs /\ InitIx /\ InitReader /\ InitFs /\ InitPure

NextIndex ==
    \/ IxBuildSerial
    \/ IxBuildParallel
    \/ IxBuildPartial
    \/ IxContinueBuild
    \/ IxContinueCancelled
    \/ IxSeek

SpecIndex == InitIndex /\ [][NextIndex]_vars

(* ------------- pure operations applied to bounded inputs --------------- *)
\* longest path name, longest line, longest file and largest sample size
\* handed to the operations
MaxPathLen == 5
MaxLine == 5
MaxEstBody == 7
MaxSample == 4

\* file names over the dot and the letters a, c, s, v; "." and ".." name
\* directories
PathAlphabet == {DOT, 97, 99, 115, 118}
Paths ==
    UNION {[1..n -> PathAlphabet] : n \in 1..MaxPathLen} \ {<<DOT>>, <<DOT, DOT>>}

\* lines over the delimiter, the quote, an ordinary byte and CR
LineAlphabet == {COMMA, QUOTE, 120, CR}
Lines == UNION {[1..n -> LineAlphabet] : n \in 0..MaxLine}

EstFiles == UNION {[1..n -> Alphabet] : n \in 0..MaxEstBody}

InitRest ==
    /\ granularity = 1
    /\ src_mtime = MaxMtimeShift
    /\ InitIx
    /\ InitReader
    /\ InitFs
    /\ saved_metadata = {}
    /\ load_result = {}
    /\ estimated = {}
    /\ index_path = {}
    /\ record = {}
    /\ rewritten = {}
    /\ editor = {}
    /\ edits = 0
    /\ save_stats = {}

\* RowIndex::index_file_path(csv_path)
IndexFilePath ==
    /\ index_path = {}
    /\ index_path' = {index_file_path(csv_path)}
    /\ UNCHANGED <<inputs, fsvars, ixvars, rdvars, saved_metadata, load_result,
                   sample_size, estimated, csv_path, line, record, rewritten, edvars, lruvars>>

\* CsvRecord::parse_line(line, b',')
ParseLine ==
    /\ record = {}
    /\ record' = {parse_line(line, COMMA)}
    /\ UNCHANGED <<inputs, fsvars, ixvars, rdvars, saved_metadata, load_result,
                   sample_size, estimated, csv_path, index_path, line, rewritten, edvars, lruvars>>

\* the parsed fields written back as one line
WriteLine ==
    /\ rewritten = {}
    /\ \E fields \in record :
        rewritten' = {write_line(fields, COMMA)}
    /\ UNCHANGED <<inputs, fsvars, ixvars, rdvars, saved_metadata, load_result,
                   sample_size, estimated, csv_path, index_path, line, record, edvars, lruvars>>

\* RowIndex::estimate_rows(mmap, has_headers, sample_size)
EstimateRows ==
    /\ estimated = {}
    /\ estimated' = {estimate_rows(file, has_headers, sample_size)}
    /\ UNCHANGED <<inputs, fsvars, ixvars, rdvars, saved_metadata, load_result,
                   sample_size, csv_path, index_path, line, record, rewritten, edvars, lruvars>>

InitPath ==
    /\ InitRest
    /\ InitLru
    /\ has_headers = FALSE
    /\ file = <<>>
    /\ sample_size = 1
    /\ line = <<>>
    /\ csv_path \in Paths

SpecPath == InitPath /\ [][IndexFilePath]_vars

InitParse ==
    /\ InitRest
    /\ InitLru
    /\ has_headers = FALSE
    /\ file = <<>>
    /\ sample_size = 1
    /\ csv_path = SourcePath
    /\ line \in Lines

NextParse == ParseLine \/ WriteLine

SpecParse == InitParse /\ [][NextParse]_vars

InitEstimate ==
    /\ InitRest
    /\ InitLru
    /\ has_headers \in BOOLEAN
    /\ csv_path = SourcePath
    /\ line = <<>>
    /\ file \in EstFiles
    /\ sample_size \in 1..MaxSample

SpecEstimate == InitEstimate /\ [][EstimateRows]_vars

(* ------------------------------ CsvEditor ------------------------------ *)
\* successful editing calls made on one editor
MaxEdits == 3

\* the rows an editor adds are told apart by the number of the call that
\* added them; the columns are left alone, so every new row has the
\* expected number of fields
CsvEditor_new(original_row_count) ==
    [original_row_count |-> original_row_count,
     inserted_rows |-> [position \in 0..original_row_count |-> <<>>],
     deleted_rows |-> {},
     appended_rows |-> <<>>]

RECURSIVE SumLen(_, _)
SumLen(rows_at, positions) ==
    IF positions = {} THEN 0
    ELSE LET p == CHOOSE p \in positions : TRUE
         IN Len(rows_at[p]) + SumLen(rows_at, positions \ {p})

effective_row_count(ed) ==
    ed.original_row_count - Cardinality(ed.deleted_rows)
        + SumLen(ed.inserted_rows, DOMAIN ed.inserted_rows)
        + Len(ed.appended_rows)

\* Vec::remove(i), i 0-based
VecRemove(v, i) == SubSeq(v, 1, i) \o SubSeq(v, i + 2, Len(v))

\* delete_row: {} on IndexOutOfBounds
delete_row(ed, row) ==
    IF row >= ed.original_row_count
    THEN LET appended_idx == row - ed.original_row_count
         IN IF appended_idx < Len(ed.appended_rows)
            THEN {[ed EXCEPT !.appended_rows = VecRemove(ed.appended_rows, appended_idx)]}
            ELSE {}
    ELSE {[ed EXCEPT !.deleted_rows = ed.deleted_rows \cup {row}]}

\* undelete_row: {} when the row is not deleted
undelete_row(ed, row) ==
    IF row \notin ed.deleted_rows THEN {}
    ELSE {[ed EXCEPT !.deleted_rows = ed.deleted_rows \ {row}]}

append_row(ed, row) ==
    {[ed EXCEPT !.appended_rows = Append(ed.appended_rows, row)]}

\* insert_row: {} on IndexOutOfBounds
insert_row(ed, position, row) ==
    IF position > ed.original_row_count THEN {}
    ELSE {[ed EXCEPT !.inserted_rows[position] = Append(@, row)]}

NewRow(id) == [src |-> "new", id |-> id]
OriginalRow(row, fields) == [src |-> "original", row |-> row, fields |-> fields]

\* the row loop of save from current_row on: the rows written, or "err"
\* when read_page fails
RECURSIVE SaveRows(_, _, _, _, _, _)
SaveRows(ed, f, idx, total_rows, ds, current_row) ==
    IF current_row >= ed.original_row_count THEN [ok |-> TRUE, rows |-> <<>>]
    ELSE LET inserted == ed.inserted_rows[current_row]
             rest == SaveRows(ed, f, idx, total_rows, ds, current_row + 1)
         IN IF current_row \in ed.deleted_rows
            THEN [ok |-> rest.ok, rows |-> inserted \o rest.rows]
            ELSE LET page == read_page(f, idx, total_rows, ds, COMMA, current_row, 1)
                 IN IF ~page.ok THEN [ok |-> FALSE, rows |-> <<>>]
                    ELSE [ok |-> rest.ok,
                          rows |-> inserted
                                   \o (IF page.records = <<>> THEN <<>>
                                       ELSE <<OriginalRow(current_row, page.records[1])>>)
                                   \o rest.rows]

\* CsvEditor::save: the data rows written and SaveStats.rows_written
SaveStats(ok, rows) == [ok |-> ok, rows |-> rows, rows_written |-> Len(rows)]

editor_save(ed, f, idx, total_rows, ds) ==
    LET body == SaveRows(ed, f, idx, total_rows, ds, 0)
    IN IF ~body.ok THEN SaveStats(FALSE, <<>>)
       ELSE SaveStats(TRUE, body.rows \o ed.appended_rows)

\* CsvEditor::open: the row count published by CsvReader::open
EditorOpen ==
    /\ editor = {}
    /\ first_line_ok(file)
    /\ \E num_threads \in 1..MaxThreads :
        \E o \in {load_or_build_index(file, has_headers, granularity, src_mtime,
                                      idx_file, num_threads)} :
           /\ o.res = "ok"
           /\ editor' = {CsvEditor_new(o.total_rows)}
           /\ idx_file' = o.idx_file
    /\ UNCHANGED <<inputs, ixvars, rdvars, idx_damage, opened, saved_metadata,
                   load_result, sample_size, estimated, csv_path, index_path, line,
                   record, rewritten, edits, save_stats, lruvars>>

EditFrame ==
    UNCHANGED <<inputs, ixvars, rdvars, fsvars, saved_metadata, load_result,
                sample_size, estimated, csv_path, index_path, line, record, rewritten,
                lruvars>>

\* CsvEditor::delete_row(row), successful
DeleteRow ==
    /\ edits < MaxEdits
    /\ \E ed \in editor :
        \E row \in 0..(ed.original_row_count + Len(ed.appended_rows)) :
            /\ delete_row(ed, row) /= {}
            /\ editor' = delete_row(ed, row)
    /\ edits' = edits + 1
    /\ save_stats' = {}
    /\ EditFrame

\* CsvEditor::undelete_row(row), successful
UndeleteRow ==
    /\ edits < MaxEdits
    /\ \E ed \in editor :
        \E row \in 0..ed.original_row_count :
            /\ undelete_row(ed, row) /= {}
            /\ editor' = undelete_row(ed, row)
    /\ edits' = edits + 1
    /\ save_stats' = {}
    /\ EditFrame

\* CsvEditor::insert_row(position, row), successful
InsertRow ==
    /\ edits < MaxEdits
    /\ \E ed \in editor :
        \E position \in 0..(ed.original_row_count + 1) :
            /\ insert_row(ed, position, NewRow(edits)) /= {}
            /\ editor' = insert_row(ed, position, NewRow(edits))
    /\ edits' = edits + 1
    /\ save_stats' = {}
    /\ EditFrame

\* CsvEditor::append_row(row), successful
AppendRow ==
    /\ edits < MaxEdits
    /\ \E ed \in editor : editor' = append_row(ed, NewRow(edits))
    /\ edits' = edits + 1
    /\ save_stats' = {}
    /\ EditFrame

\* CsvEditor::save: a reader opened on the source, then the row loop
EditorSave ==
    /\ save_stats = {}
    /\ \E ed \in editor, num_threads \in 1..MaxThreads :
        \E o \in {load_or_build_index(file, has_headers, granularity, src_mtime,
                                      idx_file, num_threads)} :
           /\ o.res = "ok"
           /\ save_stats' = {editor_save(ed, file, o.index, o.total_rows,
                                         data_start(file, has_headers))}
           /\ idx_file' = o.idx_file
    /\ UNCHANGED <<inputs, ixvars, rdvars, idx_damage, opened, saved_metadata,
                   load_result, sample_size, estimated, csv_path, index_path, line,
                   record, rewritten, editor, edits, lruvars>>

InitEdit == Init

NextEdit ==
    \/ EditorOpen
    \/ DeleteRow
    \/ UndeleteRow
    \/ InsertRow
    \/ AppendRow
    \/ EditorSave

SpecEdit == InitEdit /\ [][NextEdit]_vars


(* ------------------- reference notions for the claims ------------------ *)
\* the data region: after the BOM and, with headers, after the header line
\* (the header line is the whole rest of the file when it has no newline)
RegionStart(f, hh) ==
    IF hh
    THEN LET pos == memchr(f, start_offset(f), Len(f))
         IN IF pos >= 0 THEN pos + 1 ELSE Len(f)
    ELSE start_offset(f)

\* number of data rows: newline-terminated rows plus an unterminated last row
DataRowCount(f, hh) ==
    LET rs  == RegionStart(f, hh)
        nls == memchr_iter(f, rs, Len(f))
        last_start == IF nls = <<>> THEN rs ELSE nls[Len(nls)] + 1
    IN Len(nls) + (IF last_start < Len(f) THEN 1 ELSE 0)

\* file offset of the first byte of 0-based data row r, the rows counted
\* from data_start
RowStart(f, hh, r) ==
    IF r = 0 THEN data_start(f, hh)
    ELSE memchr_iter(f, data_start(f, hh), Len(f))[r] + 1

SameAnchors(a, b) ==
    /\ a.total_rows = b.total_rows
    /\ a.row_numbers = b.row_numbers
    /\ a.offsets = b.offsets

(* ------------------------------ claims --------------------------------- *)
\* C2: the parallel construction yields the same total_rows and the same
\* anchor sequence as the serial construction, for every chunk split.
C2_ParallelEqualsSerial ==
    ixop = "build_parallel"
        => SameAnchors(ix, build_with_progress(file, has_headers, granularity))

\* C3: build_partial(max_rows) followed by continue_build run to completion
\* yields total_rows and anchors of the serial full build, and is complete.
C3_PartialThenContinueEqualsSerial ==
    ixop = "continue_build"
        => /\ ix.is_complete
           /\ SameAnchors(ix, build_with_progress(file, has_headers, granularity))

\* C3 witness: continue_build resumed a partial index in the middle of the
\* file and recorded further anchors.
C3_Witness ==
    /\ ixop = "continue_build"
    /\ ~ixfrom.is_complete
    /\ ixfrom.indexed_bytes < Len(file)
    /\ Len(ix.row_numbers) > Len(ixfrom.row_numbers)
    /\ ix.total_rows > ixfrom.total_rows + 1

\* C4: a full (serial) build of a source with exactly N data rows reports
\* total_rows = N, whatever the trailing-newline configuration.
C4_FullBuildCountsRows ==
    ixop = "build_with_progress" => ix.total_rows = DataRowCount(file, has_headers)

\* C5: seek(r) for r < total_rows returns (off, a) with a <= r, a the largest
\* anchor row <= r (0 when there is none) and off the offset of the first
\* byte of row a (data_start when a = 0).
C5_SeekReturnsAnchorRowStart ==
    \A s \in seek_result :
        (ixop \in {"build_with_progress", "build_partial", "continue_build"}
            /\ s.target < ix.total_rows)
            => LET below == {ix.row_numbers[i] : i \in 1..Len(ix.row_numbers)}
                            \cap 0..s.target
                   a == IF below = {} THEN 0 ELSE Max(below)
               IN /\ s.res.ok
                  /\ s.res.anchor_row <= s.target
                  /\ s.res.anchor_row = a
                  /\ s.res.offset = RowStart(file, has_headers, a)

(* -------------------------- claims on the reader ----------------------- *)
\* the bytes of the data rows, in file order, from data_start on
RECURSIVE RowsFrom(_, _)
RowsFrom(f, from) ==
    IF from >= Len(f) THEN <<>>
    ELSE LET pos == memchr(f, from, Len(f))
         IN IF pos < 0 THEN <<SubSeq(f, from + 1, Len(f))>>
            ELSE <<SubSeq(f, from + 1, pos)>> \o RowsFrom(f, pos + 1)

\* the records of data rows lo .. hi-1
ExpectedRecords(f, ds, lo, hi) ==
    LET rows == RowsFrom(f, ds)
    IN [k \in 1..(hi - lo) |-> parse_line(rows[lo + k], COMMA)]

\* C1: with a complete index from open, read_page(p, S) with p*S < total_rows
\* returns exactly the data rows p*S .. min((p+1)*S, total_rows)-1, in order.
C1_ReadPageReturnsThePage ==
    \A l \in last_read :
        (rd = "open" /\ index.is_complete /\ adopted = {}
            /\ l.page * l.page_size < info_total_rows)
        => LET lo == l.page * l.page_size
               hi == IF lo + l.page_size < info_total_rows
                     THEN lo + l.page_size ELSE info_total_rows
           IN /\ l.res.ok
              /\ l.res.records = ExpectedRecords(file, data_start_offset, lo, hi)

\* C6: read_page never fails: it returns an empty list when p*S >= published
\* total_rows and Ok when p*S < published total_rows, also on a reader from
\* open_fast whose published total_rows is an estimate.
C6_ReadPageNeverOutOfRange ==
    \A l \in last_read :
        /\ l.res.ok
        /\ (l.page * l.page_size >= info_total_rows => l.res.records = <<>>)

\* C7: after update_index(new_index) the reader's index is new_index, its
\* published total_rows is new_index.total_rows, its estimate is absent, its
\* cache is empty until the next read, and every page cached later was read
\* under new_index.
C7_AdoptReplacesIndexAndCache ==
    \A a \in adopted :
        /\ index = a.new
        /\ info_total_rows = a.new.total_rows
        /\ row_estimate = {}
        /\ (last_read = {} => cache = <<>>)
        /\ \A i \in 1..Len(cache) : cache[i].under = a.new

\* C7 witness: a reader from open_fast with a cached page adopted a different
\* index and then read and cached a page.
C7_Witness ==
    \E a \in adopted :
        /\ a.old /= a.new
        /\ a.had_cache
        /\ a.had_estimate
        /\ last_read /= {}
        /\ cache /= <<>>

\* C8: after cancel() while the worker is scanning, the worker stops at its
\* next newline iteration (it counts no row and records no anchor beyond the
\* iteration in flight, and returns an incomplete index), the worker ends,
\* and a pending wait() returns.
C8_CancelStopsWorker ==
    /\ [](\A m \in cancel_mark :
            (m.by = "cancel" /\ m.more /\ worker.pc = "done")
            => /\ ~worker.completed
               /\ ~worker.index.is_complete
               /\ worker.index.total_rows = m.limit
               /\ Len(worker.index.row_numbers) = m.anchors)
    /\ ((\E m \in cancel_mark : m.by = "cancel") ~> worker.pc = "done")
    /\ ((cancel_flag /\ handle = "waiting") ~> handle = "waited")

\* C8 witness: cancel() hit a scanning worker, the worker stopped and wait()
\* returned its partial index.
C8_Witness ==
    /\ \E m \in cancel_mark : m.by = "cancel" /\ m.more
    /\ worker.pc = "done"
    /\ ~worker.completed
    /\ handle = "waited"
    /\ \E w \in wait_result : ~w.is_complete

\* C9: dropping the handle without wait() sets the shared cancellation flag,
\* and a worker that still has a newline check ahead stops there instead of
\* running to completion.
C9_DropCancels ==
    /\ handle = "dropped" => cancel_flag
    /\ \A m \in cancel_mark :
        (m.by = "drop" /\ m.more /\ worker.pc = "done")
        => (~worker.completed /\ ~worker.index.is_complete)

\* C9 witness: the handle was dropped while the worker was scanning and the
\* worker has stopped.
C9_Witness ==
    /\ handle = "dropped"
    /\ \E m \in cancel_mark : m.by = "drop" /\ m.more
    /\ worker.pc = "done"

\* C10: a read_page(p, S) immediately after a successful read_page(p, S)
\* returns field-wise equal records and parses no record (it is answered
\* from the page cache).
C10_RepeatedReadServedFromCache ==
    \A l \in last_read :
        (l.repeat /\ l.res.ok)
        => (l.res.records = l.before /\ l.res.parsed = 0)

(* ---------------------- claims on index persistence -------------------- *)
\* the index the first open of the source builds: a full build for open,
\* build_fast_index for open_fast
FirstBuilds(kind) ==
    {IF kind = "open"
     THEN build(file, has_headers, granularity, n)
     ELSE build_fast_index(file, has_headers, granularity, n).index :
        n \in 1..MaxThreads}

\* C11: open and open_fast never fail because of the index file: when
\* <source>.idx is missing, truncated, corrupt, unreadable or not accepted,
\* the open succeeds and its total_rows and anchors are those of the first
\* build of the source with the same options.
C11_OpenFallsBackToBuild ==
    \A o \in opened :
        (/\ rd /= "closed"
         /\ \/ o.idx_state \in {"missing", "locked"}
            \/ o.damage \in {"missing", "truncated", "corrupt", "unreadable"}
            \/ ~o.loaded)
        => /\ o.res = "ok"
           /\ \E b \in FirstBuilds(o.kind) : SameAnchors(index, b)

\* absolute difference of two modification times, in ticks
AbsDiff(a, b) == IF a >= b THEN a - b ELSE b - a

\* C12: a persisted index is accepted only if the source size equals
\* metadata.csv_size and the source modification time is within 1 second of
\* metadata.csv_mtime; after the size changed or the modification time moved
\* by more than 1 second, a reopen rejects the persisted index and open
\* reports the row count of the changed source.
C12_ValidationBySizeAndMtime ==
    \A o \in opened :
        (rd /= "closed" /\ o.damage \in {"none", "modified"})
        => \A m \in o.metadata :
            (\/ Len(file) /= m.csv_size
             \/ AbsDiff(src_mtime, m.csv_mtime) > TICKS_PER_SEC)
            => /\ ~o.loaded
               /\ o.kind = "open"
                    => \E b \in FirstBuilds("open") : info_total_rows = b.total_rows

\* C13: load_from_file of the file save_to_file wrote returns the saved
\* index (offsets, row numbers, granularity, total_rows, is_complete,
\* indexed_bytes) and the saved metadata; and a second open of the unchanged
\* source with the same constructor and options publishes the same
\* total_rows and total_cols as the first.
C13_SaveLoadRoundTrip ==
    /\ \A r \in load_result :
        /\ r.res = "ok"
        /\ r.index = {ix}
        /\ r.metadata = saved_metadata
    /\ \A o \in opened :
        (rd /= "closed" /\ o.damage = "none")
        => \A p \in o.prev :
            (p.kind = o.kind /\ p.res = "ok")
            => /\ o.res = "ok"
               /\ o.total_rows = p.total_rows
               /\ o.total_cols = p.total_cols

\* C13 witness: an incomplete index with anchors went through save and load.
C13_Witness ==
    /\ ixop = "save_to_file"
    /\ ~ix.is_complete
    /\ ix.offsets /= <<>>
    /\ ix.indexed_bytes > 0
    /\ \E r \in load_result : r.res = "ok"

(* ------------------ claims on paths, seek and anchors ------------------ *)
\* C14: index_file_path returns the source path with ".idx" appended to the
\* full file name, nothing else inserted, so no other source path maps to
\* the same index path.
C14_IndexPathAppendsIdx ==
    \A ip \in index_path :
        /\ ip = csv_path \o EXT_IDX
        /\ \A q \in Paths : q /= csv_path => index_file_path(q) /= ip

\* C15: seek(target_row) fails exactly when target_row >= total_rows, and the
\* failure carries the requested row and the index's total_rows.
C15_SeekOutOfRange ==
    \A s \in seek_result :
        /\ s.res.ok <=> s.target < ix.total_rows
        /\ ~s.res.ok => /\ s.res.err_row = s.target
                        /\ s.res.err_total_rows = ix.total_rows

\* C15 witness: a seek to the first row past the end of an index with
\* anchors failed.
C15_Witness ==
    \E s \in seek_result :
        /\ ~s.res.ok
        /\ s.target = ix.total_rows
        /\ ix.total_rows >= 2
        /\ ix.offsets /= <<>>

StrictlyIncreasing(s) == \A i \in 1..(Len(s) - 1) : s[i] < s[i + 1]

\* C16: in every index a construction path produced, the anchor row numbers
\* are strictly increasing and the anchor offsets are strictly increasing.
C16_AnchorsStrictlyIncreasing ==
    ixop /= "new"
        => /\ StrictlyIncreasing(ix.row_numbers)
           /\ StrictlyIncreasing(ix.offsets)

\* the newline-terminated data rows a build has scanned: all of the data
\* region for a complete index, the rows counted so far for a partial one
ScannedRows(x) ==
    IF x.is_complete
    THEN Len(memchr_iter(file, data_start(file, has_headers), Len(file)))
    ELSE x.total_rows

\* C17: the anchor row numbers of a built index with granularity G are
\* exactly G, 2G, ..., kG with k = floor(M / G), M the number of
\* newline-terminated data rows scanned.
C17_AnchorsAtMultiplesOfG ==
    ixop /= "new"
        => ix.row_numbers = [k \in 1..(ScannedRows(ix) \div ix.granularity)
                                |-> k * ix.granularity]

(* ---------------------- claims on parser and writer -------------------- *)
StripCR(l) ==
    IF l /= <<>> /\ l[Len(l)] = CR THEN SubSeq(l, 1, Len(l) - 1) ELSE l

\* the delimiters with an even number of quotes before them
SplitPoints(l) ==
    {i \in 1..Len(l) :
        /\ l[i] = COMMA
        /\ Cardinality({j \in 1..(i - 1) : l[j] = QUOTE}) % 2 = 0}

\* the pieces of l between those delimiters, in order
Segments(l) ==
    LET sp == SplitPoints(l)
        n == Cardinality(sp)
        Nth(k) == CHOOSE i \in sp : Cardinality({j \in sp : j < i}) = k - 1
    IN [k \in 1..(n + 1) |->
            SubSeq(l, IF k = 1 THEN 1 ELSE Nth(k - 1) + 1,
                      IF k = n + 1 THEN Len(l) ELSE Nth(k) - 1)]

Quoted(seg) == Len(seg) >= 2 /\ seg[1] = QUOTE /\ seg[Len(seg)] = QUOTE
Inner(seg) == IF Quoted(seg) THEN SubSeq(seg, 2, Len(seg) - 1) ELSE seg

\* length of the run of quotes of t that starts at position i
RunLen(t, i) ==
    Min({j \in i..(Len(t) + 1) : j > Len(t) \/ t[j] /= QUOTE}) - i

\* t with every pair of consecutive quotes replaced by one quote: a run of n
\* quotes becomes a run of ceil(n / 2)
RECURSIVE HalveRuns(_)
HalveRuns(t) ==
    IF t = <<>> THEN <<>>
    ELSE IF Head(t) /= QUOTE THEN <<Head(t)>> \o HalveRuns(Tail(t))
    ELSE LET n == RunLen(t, 1)
         IN [k \in 1..CeilDiv(n, 2) |-> QUOTE] \o HalveRuns(SubSeq(t, n + 1, Len(t)))

\* C18: parse_line splits at the delimiters that have an even number of
\* quotes before them; a field that begins and ends with a quote loses these
\* two quotes and each pair of consecutive quotes inside it becomes one
\* quote; a field without quotes is returned as it is; the fields come in
\* input order.
C18_ParseLineSplitsOutsideQuotes ==
    \A fields \in record :
        LET segs == Segments(StripCR(line))
        IN /\ Len(fields) = Len(segs)
           /\ \A k \in 1..Len(segs) :
                /\ Quoted(segs[k]) => fields[k] = HalveRuns(Inner(segs[k]))
                /\ ~Contains(segs[k], QUOTE) => fields[k] = segs[k]

\* C18 witness: a quoted field that holds a delimiter was parsed, followed
\* by another field.
C18_Witness ==
    \E fields \in record :
        /\ Len(fields) = 2
        /\ Contains(fields[1], COMMA)

\* two lines that differ at most in the outer quotes of their fields
SameUpToOuterQuotes(a, b) ==
    LET sa == Segments(a)
        sb == Segments(b)
    IN /\ Len(sa) = Len(sb)
       /\ \A k \in 1..Len(sa) : Inner(sa[k]) = Inner(sb[k])

\* C19 as stated: for every line, parse_line followed by the writer's rule
\* reproduces the line up to the outer quotes of its fields.
C19_RoundTripOfEveryLine ==
    \A w \in rewritten : SameUpToOuterQuotes(line, w)

\* a line without a trailing CR in whose fields (outer quotes removed) the
\* quotes come in runs of even length
WellFormed(l) ==
    /\ StripCR(l) = l
    /\ \A k \in 1..Len(Segments(l)) :
        LET t == Inner(Segments(l)[k])
        IN \A i \in 1..Len(t) :
            (t[i] = QUOTE /\ (i = 1 \/ t[i - 1] /= QUOTE)) => RunLen(t, i) % 2 = 0

\* C19 amended: for every line that does not end in CR and whose fields hold
\* quotes only in runs of even length, parse_line followed by the writer's
\* rule reproduces the line up to the outer quotes of its fields.
C19_RoundTripOfWellFormedLines ==
    \A w \in rewritten : WellFormed(line) => SameUpToOuterQuotes(line, w)

\* C19 witness: a well-formed line with a quoted field was written back
\* without the quotes.
C19_Witness ==
    \E w \in rewritten :
        /\ WellFormed(line)
        /\ Contains(line, QUOTE)
        /\ Contains(line, COMMA)
        /\ w /= line

(* ------------------------ claim on the estimator ----------------------- *)
\* C20: with file_size <= B the estimator returns the exact number of data
\* rows and is_exact; otherwise, with r newlines in the s sampled bytes of
\* the data region, it returns ceil((file_size - data_start) * r / s), or 1
\* when r = 0, and not is_exact.
C20_EstimateIsCeilOfRatio ==
    \A e \in estimated :
        IF Len(file) <= sample_size
        THEN /\ e.is_exact
             /\ e.estimated_rows = DataRowCount(file, has_headers)
        ELSE LET ds == data_start(file, has_headers)
                 sampled == Min({sample_size, Len(file) - ds})
                 r == Len(memchr_iter(file, ds, ds + sampled))
             IN /\ ~e.is_exact
                /\ e.estimated_rows =
                     IF r = 0 THEN 1
                     ELSE CeilDiv((Len(file) - ds) * r, sampled)

(* ---------------------- claims on the fast open ------------------------ *)
\* C21: a reader made by open_fast that built an index which is still
\* incomplete publishes total_rows = max(estimated_rows, rows of the partial
\* index) and keeps the row estimate; a reader whose index is complete has
\* no row estimate.
C21_EstimateOnlyWhileIncomplete ==
    rd \in {"open", "open_fast"} =>
        /\ index.is_complete => row_estimate = {}
        /\ \A o \in opened :
            (o.kind = "open_fast" /\ ~o.loaded /\ adopted = {} /\ ~index.is_complete)
                => \E e \in row_estimate :
                      info_total_rows = Max({e.estimated_rows, index.total_rows})

(* ------------------------- claim on the editor ------------------------- *)
\* C22: after any sequence of successful delete_row, undelete_row,
\* insert_row and append_row calls, save writes exactly
\* effective_row_count() data rows and reports that number as rows_written;
\* every inserted and appended row is in the output and no deleted row is.
C22_SaveWritesEffectiveRows ==
    \A ed \in editor : \A s \in save_stats :
        s.ok =>
            /\ s.rows_written = effective_row_count(ed)
            /\ Len(s.rows) = s.rows_written
            /\ \A position \in DOMAIN ed.inserted_rows :
                \A i \in 1..Len(ed.inserted_rows[position]) :
                    \E k \in 1..Len(s.rows) : s.rows[k] = ed.inserted_rows[position][i]
            /\ \A i \in 1..Len(ed.appended_rows) :
                \E k \in 1..Len(s.rows) : s.rows[k] = ed.appended_rows[i]
            /\ \A k \in 1..Len(s.rows) :
                s.rows[k].src = "original" => s.rows[k].row \notin ed.deleted_rows

(* ------------------- claims on the background build -------------------- *)
\* a step of update_index: the result of wait is taken by the reader
UpdateIndexStep == wait_result /= {} /\ wait_result' = {} /\ builds' = builds

\* C23: once a background build has been started, the reader's index,
\* published total_rows and row estimate change only in an update_index
\* step, and no step of the worker (or of build_index_async, cancel, wait or
\* drop) changes them or the page cache: the worker works on its own clone.
C23_WorkerLeavesReaderAlone ==
    [][builds > 0 =>
        /\ (<<index, info_total_rows, row_estimate>>' /= <<index, info_total_rows, row_estimate>>)
              => UpdateIndexStep
        /\ (<<worker, handle, shared>>' /= <<worker, handle, shared>>)
              => UNCHANGED <<index, info_total_rows, row_estimate, cache>>]_vars

\* C23 witness: the worker has finished a complete index that differs from
\* the reader's incomplete one, wait has returned it, and the reader has a
\* cached page.
C23_Witness ==
    /\ cache /= <<>>
    /\ ~index.is_complete
    /\ \E x \in wait_result : x.is_complete /\ x /= index

\* C24: the shared progress counter never decreases, never exceeds the file
\* size, and equals the file size once a background build has completed.
C24_ProgressMonotoneToFileSize ==
    /\ [](build_progress <= Len(file))
    /\ []((worker.pc \in {"save", "done"} /\ worker.completed)
            => build_progress = Len(file))
    /\ [][build_progress' >= build_progress]_vars

\* C25: a worker that observed the cancellation flag returns an incomplete
\* index and writes no index file; the background path writes the index
\* file only after continue_build completed, and what it writes is a
\* complete index.
C25_WorkerSavesOnlyCompleteIndex ==
    /\ []((worker.pc = "done" /\ ~worker.completed) => ~worker.index.is_complete)
    /\ [](worker.pc = "save" => (worker.completed /\ worker.index.is_complete))
    /\ [][(idx_file' /= idx_file /\ rd /= "closed")
            => /\ worker.pc = "save"
               /\ worker.index.is_complete
               /\ load_from_file(idx_file'.cells).index = {worker.index}]_vars

\* C25 witness: the worker of a reader made by open_fast stopped at the
\* cancellation flag with rows still to scan, and there is no index file.
C25_Witness ==
    /\ rd = "open_fast"
    /\ worker.pc = "done"
    /\ ~worker.completed
    /\ worker.nls /= <<>>
    /\ idx_file.state = "missing"

(* -------------------- claims on resumable builds ----------------------- *)
\* C26: a complete index has indexed_bytes equal to the file size and
\* total_rows equal to the exact number of data rows; an incomplete index
\* has indexed_bytes at the first byte of a row (data_start or the byte
\* after a newline) and total_rows equal to the number of rows that end
\* before indexed_bytes.
C26_IndexedBytesAndTotalRows ==
    ixop \in {"build_with_progress", "build_partial", "continue_build",
              "continue_build_cancelled"} =>
        IF ix.is_complete
        THEN /\ ix.indexed_bytes = Len(file)
             /\ ix.total_rows = DataRowCount(file, has_headers)
        ELSE LET ds == data_start(file, has_headers)
             IN /\ \/ ix.indexed_bytes = ds
                   \/ /\ ix.indexed_bytes > ds
                      /\ file[ix.indexed_bytes] = NL
                /\ ix.total_rows = Len(memchr_iter(file, ds, ix.indexed_bytes))

\* C30: continue_build cancelled at arbitrary newlines and called again on
\* the returned index, any number of times, ends with the total_rows and the
\* anchors of one uninterrupted serial full build.
C30_InterruptedBuildEqualsSerial ==
    (ixop = "continue_build" /\ interrupted > 0)
        => /\ ix.is_complete
           /\ SameAnchors(ix, build_with_progress(file, has_headers, granularity))

\* C30 witness: a build interrupted twice, each time after further rows,
\* was completed by a call that scanned more rows.
C30_Witness ==
    /\ ixop = "continue_build"
    /\ interrupted = 2
    /\ ~ixfrom.is_complete
    /\ ixfrom.total_rows >= 3
    /\ Len(ixfrom.row_numbers) >= 2
    /\ ix.total_rows > ixfrom.total_rows

\* ---------------------------------------------------------------------
\* PageCache on its own: made with any capacity, then put, get and clear
\* ---------------------------------------------------------------------
MaxCapacity == 2
MaxCacheOps == 4

\* the pages of a LruCache, most recently used first
CachedPages(entries) == [i \in 1..Len(entries) |-> entries[i].page]

\* PageCache::put(page, records)
CachePut ==
    /\ lru_hist.clock < MaxCacheOps
    /\ \E page \in 0..MaxCachePage :
        /\ page_cache' = PageCache_put(page_cache, page, <<>>)
        /\ lru_hist' = LruHist(lru_hist.made, lru_hist.clock + 1, "put", page,
                               CachedPages(page_cache.cache), lru_hist.used,
                               [lru_hist.used EXCEPT ![page] = lru_hist.clock + 1])
    /\ UNCHANGED <<inputs, ixvars, rdvars, fsvars, saved_metadata, load_result,
                   sample_size, estimated, csv_path, index_path, line, record,
                   rewritten, edvars>>

\* PageCache::get(page)
CacheGet ==
    /\ lru_hist.clock < MaxCacheOps
    /\ \E page \in 0..MaxCachePage :
        \E g \in {PageCache_get(page_cache, page)} :
            /\ page_cache' = g.pc
            /\ lru_hist' = LruHist(lru_hist.made, lru_hist.clock + 1, "get", page,
                                   CachedPages(page_cache.cache), lru_hist.used,
                                   IF g.hit
                                   THEN [lru_hist.used EXCEPT ![page] = lru_hist.clock + 1]
                                   ELSE lru_hist.used)
    /\ UNCHANGED <<inputs, ixvars, rdvars, fsvars, saved_metadata, load_result,
                   sample_size, estimated, csv_path, index_path, line, record,
                   rewritten, edvars>>

\* PageCache::clear
CacheClear ==
    /\ lru_hist.clock < MaxCacheOps
    /\ PageCache_len(page_cache) > 0
    /\ page_cache' = PageCache_clear(page_cache)
    /\ lru_hist' = LruHist(lru_hist.made, lru_hist.clock + 1, "clear", 0,
                           CachedPages(page_cache.cache), lru_hist.used, lru_hist.used)
    /\ UNCHANGED <<inputs, ixvars, rdvars, fsvars, saved_metadata, load_result,
                   sample_size, estimated, csv_path, index_path, line, record,
                   rewritten, edvars>>

\* PageCache::new(capacity) with any capacity, or PageCache::default()
InitCache ==
    /\ InitRest
    /\ has_headers = FALSE
    /\ file = <<>>
    /\ sample_size = 1
    /\ csv_path = SourcePath
    /\ line = <<>>
    /\ \E made \in {"new", "default"} :
        /\ page_cache \in IF made = "default"
                          THEN {PageCache_default}
                          ELSE {PageCache_new(c) : c \in 0..MaxCapacity}
        /\ lru_hist = LruHist(made, 0, "made", 0, <<>>, NeverUsed, NeverUsed)

NextCache == CachePut \/ CacheGet \/ CacheClear

SpecCache == InitCache /\ [][NextCache]_vars

\* the range of a sequence of pages
PageSet(pages) == {pages[i] : i \in 1..Len(pages)}

\* the page of a non-empty set whose last use is the oldest
LeastRecentlyUsed(pages, used) ==
    CHOOSE p \in pages : \A q \in pages : used[p] <= used[q]

\* C27: the page cache never holds more pages than its capacity, which is
\* at least one and is ten for the default cache; a put leaves the page it
\* inserted in the cache and, when the cache was full of other pages,
\* removes exactly the page whose last use was the oldest; after clear the
\* cache is empty
C27_CacheBoundedLru ==
    /\ page_cache.capacity >= 1
    /\ lru_hist.made = "default" => page_cache.capacity = 10
    /\ PageCache_len(page_cache) <= page_cache.capacity
    /\ Cardinality(PageSet(CachedPages(page_cache.cache))) = PageCache_len(page_cache)
    /\ lru_hist.op = "put" =>
         LET before == PageSet(lru_hist.before)
             after == PageSet(CachedPages(page_cache.cache))
         IN /\ lru_hist.page \in after
            /\ IF lru_hist.page \notin before
                  /\ Cardinality(before) >= page_cache.capacity
               THEN after = (before \ {LeastRecentlyUsed(before, lru_hist.used_before)})
                              \cup {lru_hist.page}
               ELSE after = before \cup {lru_hist.page}
    /\ lru_hist.op = "clear" => PageCache_len(page_cache) = 0

\* a put of a new page into a cache of capacity two that held two other
\* pages: one of them is evicted
C27_Witness ==
    /\ lru_hist.op = "put"
    /\ page_cache.capacity = 2
    /\ Len(lru_hist.before) = 2
    /\ lru_hist.page \notin PageSet(lru_hist.before)
    /\ PageCache_len(page_cache) = 2

\* C28: on one reader, a build started after an earlier build was cancelled,
\* dropped or waited for, and whose own handle is waited on without having
\* been cancelled, eventually returns a complete index from wait()
C28_LaterBuildCompletes ==
    (builds >= 2 /\ handle = "waiting" /\ ~cancelled)
        ~> (handle = "waited" /\ \E x \in wait_result : x.is_complete)

(* -------------------- claim on the accepted index ---------------------- *)
\* C29: whenever open or open_fast accepts the persisted index of an
\* unchanged source, written by an earlier open, the accepted index has the
\* total_rows and the anchors of a fresh build of the source with the
\* opener's own has_headers and granularity, also when the opener's options
\* differ from those of the open that wrote the index.
C29_AcceptedIndexIsFreshBuild ==
    \A o \in opened :
        (/\ rd /= "closed"
         /\ o.res = "ok"
         /\ o.loaded
         /\ o.damage \in {"none", "options"})
        => \E b \in FirstBuilds("open") \cup FirstBuilds("open_fast") :
              SameAnchors(index, b)

====
